---------------------------- MODULE Spec2Model ----------------------------
(***************************************************************************)
(* Sender side of the Homa kernel module (homa_outgoing.c): packetizing a  *)
(* message, the unscheduled/granted/next frontiers of an outbound message, *)
(* the NIC-queue estimate, the throttled list and the pacer.               *)
(***************************************************************************)
EXTENDS Integers, Sequences, FiniteSets, TLC

(***************************************************************************)
(* Bounds of the model.                                                    *)
(***************************************************************************)
NumRpcs == 2
MaxLen == 4
MaxTime == 2
MaxIdle == 3

(***************************************************************************)
(* Program constants.                                                      *)
(***************************************************************************)
HOMA_MAX_MESSAGE_LENGTH == 1000000
HOMA_IPV4_HEADER_LENGTH == 20
HOMA_VLAN_HEADER == 20
HOMA_ETH_OVERHEAD == 24
HOMA_MAX_HEADER == 64
sizeof_data_segment == 8
sizeof_data_header == 48
EINVAL == 22
ENOMEM == 12
ENOBUFS == 105
PACER_MAX_ITERATIONS == 5

(***************************************************************************)
(* Configuration of the transport and of the route to the peer, as set by  *)
(* sysctl and by the network device.                                       *)
(***************************************************************************)
mtu == 70
gso_max_size == 70
max_gso_size == 100000
throttle_min_bytes == 2
cycles_per_kbyte == 10
RttChoices == {2, 3}

NULL == 0
Rpcs == 1..NumRpcs
Threads == {"pacer", "other"}
NoThread == "none"

Min(a, b) == IF a < b THEN a ELSE b
Max(a, b) == IF a > b THEN a ELSE b

RECURSIVE SumLengths(_)
SumLengths(segs) ==
    IF segs = <<>> THEN 0 ELSE Head(segs).length + SumLengths(Tail(segs))

(***************************************************************************)
(* homa_fill_packets.  A buffer (sk_buff) is a record holding its segments *)
(* (offset, length), the `incoming` and `retransmit` header fields.        *)
(***************************************************************************)
\* Every segment is given the full size, the last one too.
SegSize_full(bytes_left, max_pkt_data) == max_pkt_data

\* seg_size of the next segment.
SegSize(bytes_left, max_pkt_data) ==
    IF bytes_left <= max_pkt_data THEN bytes_left ELSE max_pkt_data

RECURSIVE FillSegments(_, _, _, _)
FillSegments(len, bytes_left, available, max_pkt_data) ==
    LET seg_size == SegSize(bytes_left, max_pkt_data)
        seg == [offset |-> len - bytes_left, length |-> seg_size]
    IN  IF (available - seg_size > 0) /\ (bytes_left - seg_size > 0)
        THEN <<seg>> \o FillSegments(len, bytes_left - seg_size,
                                     available - seg_size, max_pkt_data)
        ELSE <<seg>>

RECURSIVE FillBuffers(_, _, _, _, _)
FillBuffers(len, bytes_left, max_pkt_data, max_gso_data, unsched) ==
    IF bytes_left <= 0 THEN <<>>
    ELSE LET segs == FillSegments(len, bytes_left, max_gso_data, max_pkt_data)
             left == bytes_left - SumLengths(segs)
             skb == [segs |-> segs,
                     incoming |-> Max(len - left, unsched),
                     retransmit |-> 0]
         IN  <<skb>> \o FillBuffers(len, left, max_pkt_data, max_gso_data,
                                    unsched)

\* The unscheduled bytes are rounded down.
UnschedRounded_down(rtt, max_gso_data) == rtt - (rtt % max_gso_data)

\* "unsched = homa->rtt_bytes + max_gso_data - 1;
\*  unsched -= unsched % max_gso_data;"
UnschedRounded(rtt, max_gso_data) ==
    LET unsched == rtt + max_gso_data - 1
    IN  unsched - (unsched % max_gso_data)

\* The header of a packet is counted without its data_segment.
MaxPktData_bare(size) ==
    size - HOMA_IPV4_HEADER_LENGTH - (sizeof_data_header - sizeof_data_segment)

\* "max_pkt_data = mtu - HOMA_IPV4_HEADER_LENGTH - sizeof(struct data_header)"
MaxPktData(size) == size - HOMA_IPV4_HEADER_LENGTH - sizeof_data_header

\* The layout parameters homa_fill_packets derives from the route and the
\* configuration: max_pkt_data, max_gso_data and unsched.
FillLayout(len, mtu_, dev_gso, rtt) ==
    LET mpd0 == MaxPktData(mtu_)
    IN  IF len <= mpd0
        THEN [max_pkt_data |-> mpd0, max_gso_data |-> len, unsched |-> len]
        ELSE LET gso0 == Min(dev_gso, max_gso_size)
                 bufs0 == gso0 \div mtu_
                 bufs_per_gso == IF bufs0 = 0 THEN 1 ELSE bufs0
                 mpd == IF bufs0 = 0 THEN MaxPktData(gso0) ELSE mpd0
                 mgd == bufs_per_gso * mpd
                 u1 == UnschedRounded(rtt, mgd)
             IN  [max_pkt_data |-> mpd, max_gso_data |-> mgd,
                  unsched |-> Min(u1, len)]

\* The length check with its upper limit taken as exclusive.
BadLength_exclusive(len) == (len >= HOMA_MAX_MESSAGE_LENGTH) \/ (len = 0)

\* The length check that opens homa_fill_packets.
BadLength(len) == (len > HOMA_MAX_MESSAGE_LENGTH) \/ (len = 0)

\* fail_at is the index of the first buffer whose alloc_skb fails (0: none).
homa_fill_packets(len, mtu_, dev_gso, rtt, fail_at) ==
    IF BadLength(len)
    THEN [err |-> -EINVAL, packets |-> <<>>]
    ELSE LET lay == FillLayout(len, mtu_, dev_gso, rtt)
             all == FillBuffers(len, len, lay.max_pkt_data, lay.max_gso_data,
                                lay.unsched)
         IN  IF fail_at > 0 /\ fail_at <= Len(all)
             THEN [err |-> -ENOMEM, packets |-> <<>>]
             ELSE [err |-> 0, packets |-> all]

(***************************************************************************)
(* State.                                                                  *)
(*   msgout[r]        struct homa_message_out of RPC r (length < 0: not in *)
(*                    use); next_packet is an index into packets or NULL   *)
(*   state[r], is_client[r], lock[r]   the RPC's state, role and the owner *)
(*                    of its (bucket) lock                                 *)
(*   throttled_rpcs   homa->throttled_rpcs, head first                     *)
(*   link_idle_time, pacer_active, rtt_bytes, max_nic_queue_cycles,        *)
(*   dont_throttle    fields of struct homa (dont_throttle: the bit        *)
(*                    HOMA_FLAG_DONT_THROTTLE of flags)                    *)
(*   now              get_cycles()                                         *)
(*   pc, iter, cur    per thread: position, pacer loop counter i, and the  *)
(*                    RPC it holds locked                                  *)
(*   sent             the buffers handed to ip_queue_xmit by the last step *)
(*   call             the operation the last step performed, with the      *)
(*                    inputs and old values it was given                   *)
(*   slots, alloc_fail   the environment of a run: the RPCs that come into *)
(*                    being, and whether alloc_skb may fail                *)
(*   dev_gso_max_size   peer->dst->dev->gso_max_size                       *)
(*   max_sched_prio     the highest priority a GRANT may assign            *)
(*   throttle_lock      the holder of homa->throttle_lock                  *)
(*   task_state         the scheduling state of the pacer kthread          *)
(*   nic_call           the locals of each thread's homa_check_nic_queue   *)
(*   charged            the cycles of all packets permitted so far         *)
(*   msgin              an inbound message and the GRANTs issued for it    *)
(*   refs[r]            for each buffer linked in msgout[r].packets, its   *)
(*                    reference count skb->users and the references that   *)
(*                    ip_queue_xmit still holds for it                     *)
(*   xmit_fail          whether ip_queue_xmit may report an error          *)
(*   gro                the packets held for GRO merging, first of the     *)
(*                    list first, and the number of packets that have      *)
(*                    arrived                                              *)
(*   max_gro_skbs       homa->max_gro_skbs                                 *)
(*   ctl                the control packet that __homa_xmit_control is     *)
(*                    sending: the position in the function, the type in   *)
(*                    the header, the reference count of the buffer, the   *)
(*                    references ip_queue_xmit holds, and whether the      *)
(*                    function holds its own                               *)
(***************************************************************************)
VARIABLES msgout, state, is_client, lock, throttled_rpcs, link_idle_time,
          pacer_active, rtt_bytes, dont_throttle, now, pc, iter, cur, sent,
          call, slots, alloc_fail, max_nic_queue_cycles, dev_gso_max_size,
          max_sched_prio, throttle_lock, task_state, nic_call, charged, msgin,
          throttled_links, refs, xmit_fail, gro, max_gro_skbs, ctl

vars == <<msgout, state, is_client, lock, throttled_rpcs, link_idle_time,
          pacer_active, rtt_bytes, dont_throttle, now, pc, iter, cur, sent,
          call, slots, alloc_fail, max_nic_queue_cycles, dev_gso_max_size,
          max_sched_prio, throttle_lock, task_state, nic_call, charged, msgin,
          throttled_links, refs, xmit_fail, gro, max_gro_skbs, ctl>>

\* What no action of the transport changes.
env == <<rtt_bytes, dont_throttle, slots, alloc_fail, is_client,
         max_nic_queue_cycles, dev_gso_max_size, max_sched_prio, xmit_fail,
         max_gro_skbs>>

\* State that only the line-by-line and the receiver actions change.
sync_state == <<throttle_lock, task_state, nic_call, charged, msgin>>

\* The same, with the links that only list operations change, the
\* reference counts that only transmissions and releases change, and the
\* packets held for GRO.
other_state == <<sync_state, throttled_links, refs, gro, ctl, ctl>>

\* The largest max_gro_skbs, and the number of packets that arrive.
MaxGro == 3

MaxArrivals == 5

NoMessage == [length |-> -1, packets |-> <<>>, num_skbs |-> 0,
              next_packet |-> NULL, unscheduled |-> 0, granted |-> 0,
              sched_priority |-> 0]

NoCall == [fn |-> "none"]

\* A thread outside homa_check_nic_queue.
NoNic == [pc |-> "out"]

NoMessageIn == [length |-> -1]

\* No control packet is being sent.
NoCtl == [pc |-> "out", type |-> 0, users |-> 0, queued |-> 0,
          holds |-> FALSE, result |-> 0]

homa_data_offset(skb) == skb.segs[1].offset

\* The data_segments of a chain of buffers, in chain order.
RECURSIVE Segments(_)
Segments(packets) ==
    IF packets = <<>> THEN <<>>
    ELSE Head(packets).segs \o Segments(Tail(packets))

\* Bytes of message data carried by a buffer.
BufferBytes(skb) == SumLengths(skb.segs)

\* The offset the spec calls `next`: the offset of next_packet, or the
\* message length when next_packet is NULL.
NextOffset(m) ==
    IF m.next_packet = NULL THEN m.length
    ELSE homa_data_offset(m.packets[m.next_packet])

\* *homa_next_skb(skb) for the buffer at index i of the chain.
\* The buffer after the next one.
homa_next_skb_skips(m, i) == IF i + 1 < Len(m.packets) THEN i + 2 ELSE NULL

homa_next_skb(m, i) == IF i < Len(m.packets) THEN i + 1 ELSE NULL

InList(r) == \E i \in 1..Len(throttled_rpcs) : throttled_rpcs[i] = r

(***************************************************************************)
(* homa_message_out_init and homa_message_out_reset.                       *)
(***************************************************************************)
SetRetransmit0(packets) ==
    [i \in 1..Len(packets) |-> [packets[i] EXCEPT !.retransmit = 0]]

\* The clamp to the message length is forgotten.
InitialGranted_unclamped(unscheduled, length) == unscheduled

InitialGranted(unscheduled, length) ==
    IF unscheduled > length THEN length ELSE unscheduled

\* The unscheduled bytes are clamped to the message length.
InitialUnscheduled_clamped(rtt, len) == IF rtt > len THEN len ELSE rtt

InitialUnscheduled(rtt, len) == rtt

homa_message_out_init(skbs, len, rtt) ==
    [length |-> len,
     packets |-> SetRetransmit0(skbs),
     num_skbs |-> Len(skbs),
     next_packet |-> IF skbs = <<>> THEN NULL ELSE 1,
     unscheduled |-> InitialUnscheduled(rtt, len),
     granted |-> InitialGranted(InitialUnscheduled(rtt, len), len),
     sched_priority |-> 0]

\* The reset withdraws the unscheduled allowance as well.
ResetGranted_nothing(unscheduled, length) == 0

ResetGranted(unscheduled, length) ==
    IF unscheduled > length THEN length ELSE unscheduled

RECURSIVE CopyBuffers(_, _)
CopyBuffers(packets, alloc_ok) ==
    IF packets = <<>> THEN <<>>
    ELSE (IF Head(alloc_ok)
          THEN <<[Head(packets) EXCEPT !.retransmit = 0]>>
          ELSE <<>>) \o CopyBuffers(Tail(packets), Tail(alloc_ok))

\* next_packet is left at the end of the chain.
ResetNextPacket_end(copies) == NULL

\* "msgout->next_packet = msgout->packets".
ResetNextPacket(copies) == IF copies = <<>> THEN NULL ELSE 1

\* alloc_ok[i] tells whether alloc_skb succeeds for the copy of buffer i.
homa_message_out_reset(m, alloc_ok) ==
    LET copies == CopyBuffers(m.packets, alloc_ok)
    IN  [m EXCEPT !.packets = copies,
                  !.next_packet = ResetNextPacket(copies),
                  !.granted = ResetGranted(m.unscheduled, m.length)]

reset_err(m, alloc_ok) ==
    IF \E i \in 1..Len(m.packets) : ~alloc_ok[i] THEN -ENOMEM ELSE 0

(***************************************************************************)
(* homa_check_nic_queue.                                                   *)
(***************************************************************************)
SkbLength(skb) ==
    LET RECURSIVE SegBytes(_)
        SegBytes(segs) ==
            IF segs = <<>> THEN 0
            ELSE sizeof_data_segment + Head(segs).length + SegBytes(Tail(segs))
        last_pkt_length == skb.segs[Len(skb.segs)].length + sizeof_data_header
        pad == IF last_pkt_length < HOMA_MAX_HEADER
               THEN HOMA_MAX_HEADER - last_pkt_length ELSE 0
    IN  (sizeof_data_header - sizeof_data_segment) + SegBytes(skb.segs) + pad

cycles_for_packet(skb) ==
    LET segs == Len(skb.segs)
        overhead == HOMA_IPV4_HEADER_LENGTH + HOMA_VLAN_HEADER
                    + HOMA_ETH_OVERHEAD
        bytes == SkbLength(skb) + overhead
                 + (IF segs > 0
                    THEN (segs - 1) * (sizeof_data_header - sizeof_data_segment
                                       + overhead)
                    ELSE 0)
    IN  (bytes * cycles_per_kbyte) \div 1000

\* The result of one call whose compare-and-swap succeeds at once: ret is
\* the value returned, idle the new link_idle_time.
\* A queue exactly at its limit is refused too.
homa_check_nic_queue_at_limit(clock, idle, cost, force, flag, max_queue) ==
    IF ((clock + max_queue) <= idle) /\ ~force /\ ~flag
    THEN [ret |-> 0, idle |-> idle]
    ELSE [ret |-> 1,
          idle |-> IF idle < clock THEN clock + cost ELSE idle + cost]

homa_check_nic_queue(clock, idle, cost, force, flag, max_queue) ==
    IF ((clock + max_queue) < idle) /\ ~force /\ ~flag
    THEN [ret |-> 0, idle |-> idle]
    ELSE [ret |-> 1,
          idle |-> IF idle < clock THEN clock + cost ELSE idle + cost]

(***************************************************************************)
(* homa_add_to_throttled: the new throttled list.  mo is the msgout of     *)
(* every RPC, thr the list.                                                *)
(***************************************************************************)
BytesLeftCand(m) ==
    IF m.next_packet = NULL THEN 0
    ELSE m.length - homa_data_offset(m.packets[m.next_packet])

InsertBefore(thr, i, r) ==
    SubSeq(thr, 1, i - 1) \o <<r>> \o SubSeq(thr, i, Len(thr))

\* The scan of the list and list_add_tail_rcu.
ThrottledInsert(r, mo, thr) ==
    LET bytes_left == mo[r].length
            - homa_data_offset(mo[r].packets[mo[r].next_packet])
        larger == {i \in 1..Len(thr) :
                      BytesLeftCand(mo[thr[i]]) > bytes_left}
    IN  IF larger = {} THEN Append(thr, r)
        ELSE InsertBefore(thr,
                 CHOOSE i \in larger : \A j \in larger : i <= j, r)

\* The RPC is linked without a look at its links.
AlreadyLinked_ignored(links, r) == FALSE

\* "!list_empty(&rpc->throttled_links)".
AlreadyLinked(links, r) == links[r]

homa_add_to_throttled(r, mo, thr, links) ==
    IF AlreadyLinked(links, r) THEN thr ELSE ThrottledInsert(r, mo, thr)

\* list_del_rcu of an RPC that is in the list.
ListDel(thr, r) == SelectSeq(thr, LAMBDA x : x # r)

(***************************************************************************)
(* homa_xmit_data(rpc, force), run at time clock.  w is the part of the    *)
(* state the function works on: mo (every msgout), idle (link_idle_time),  *)
(* thr (throttled list) and out (buffers passed to __homa_xmit_data).      *)
(***************************************************************************)
\* The peer's unscheduled cutoffs: messages of at most 2 bytes travel at
\* priority 7, all others at priority 6.
unsched_cutoffs ==
    [i \in 0..7 |-> IF i = 7 THEN 2
                    ELSE IF i = 6 THEN HOMA_MAX_MESSAGE_LENGTH ELSE 0]

\* The highest priority whose cutoff admits a message of this length.
homa_unsched_priority(length) ==
    CHOOSE i \in 0..7 :
        /\ unsched_cutoffs[i] >= length
        /\ \A j \in (i + 1)..7 : unsched_cutoffs[j] < length

\* The priority homa_xmit_data gives a buffer whose first segment is at
\* offset.
XmitPriority(m, offset) ==
    IF offset < m.unscheduled THEN homa_unsched_priority(m.length)
    ELSE m.sched_priority

SentRecord(r, m, pacer) ==
    LET skb == m.packets[m.next_packet]
    IN  [rpc |-> r, index |-> m.next_packet,
         offset |-> homa_data_offset(skb),
         end |-> homa_data_offset(skb) + BufferBytes(skb),
         granted |-> m.granted, pacer |-> pacer,
         priority |-> XmitPriority(m, homa_data_offset(skb)),
         skb |-> skb]

\* The loop also stops at the last granted byte.
BeyondGrant_inclusive(offset, granted) == offset + 1 >= granted

\* The test "offset >= rpc->msgout.granted" that ends the transmit loop.
BeyondGrant(offset, granted) == offset >= granted

\* Every buffer goes through the NIC-queue check.
NeedsNicCheck_always(length, offset) == TRUE

\* "(rpc->msgout.length - offset) >= homa->throttle_min_bytes".
NeedsNicCheck(length, offset) == (length - offset) >= throttle_min_bytes

RECURSIVE homa_xmit_data(_, _, _, _, _)
homa_xmit_data(r, force, w, clock, pacer) ==
    LET m == w.mo[r]
    IN  IF m.next_packet = NULL THEN w
        ELSE LET skb == m.packets[m.next_packet]
                 offset == homa_data_offset(skb)
                 throttle == NeedsNicCheck(m.length, offset)
                 nic == homa_check_nic_queue(clock, w.idle,
                            cycles_for_packet(skb), force, w.flag, w.max_queue)
             IN  IF BeyondGrant(offset, m.granted) THEN w
                 ELSE IF throttle /\ nic.ret = 0
                 THEN [w EXCEPT !.thr = homa_add_to_throttled(r, w.mo, w.thr,
                                             w.links),
                                !.links[r] = TRUE]
                 ELSE homa_xmit_data(r, FALSE,
                          [mo |-> [w.mo EXCEPT ![r].next_packet =
                                       homa_next_skb(m, m.next_packet)],
                           idle |-> IF throttle THEN nic.idle ELSE w.idle,
                           thr |-> w.thr, links |-> w.links,
                           out |-> Append(w.out, SentRecord(r, m, pacer)),
                           flag |-> w.flag, max_queue |-> w.max_queue],
                          clock, pacer)

World == [mo |-> msgout, idle |-> link_idle_time, thr |-> throttled_rpcs,
          links |-> throttled_links,
          out |-> <<>>, flag |-> dont_throttle,
          max_queue |-> max_nic_queue_cycles]

(***************************************************************************)
(* homa_rpc_free, as far as the sender side sees it: the RPC becomes DEAD  *)
(* and leaves the throttled list.                                          *)
(***************************************************************************)
homa_rpc_free_state(st, r) == [st EXCEPT ![r] = "DEAD"]

homa_rpc_free_list(thr, r) == ListDel(thr, r)

homa_rpc_free_links(links, r) == [links EXCEPT ![r] = FALSE]

(***************************************************************************)
(* Initial state: no RPC, nothing queued, every thread outside the         *)
(* transport.                                                              *)
(***************************************************************************)
Quiet ==
    /\ call = NoCall
    /\ msgout = [r \in Rpcs |-> NoMessage]
    /\ state = [r \in Rpcs |-> "NONE"]
    /\ lock = [r \in Rpcs |-> NoThread]
    /\ throttled_rpcs = <<>>
    /\ throttled_links = [r \in Rpcs |-> FALSE]
    /\ refs = [r \in Rpcs |-> <<>>]
    /\ gro = [list |-> <<>>, arrived |-> 0]
    /\ ctl = NoCtl
    /\ link_idle_time = 0
    /\ pacer_active = 0
    /\ now = 0
    /\ pc = [t \in Threads |-> "idle"]
    /\ iter = [t \in Threads |-> 0]
    /\ cur = [t \in Threads |-> NULL]
    /\ sent = <<>>
    /\ throttle_lock = NoThread
    /\ task_state = "RUNNING"
    /\ nic_call = [t \in Threads |-> NoNic]
    /\ charged = 0
    /\ msgin = NoMessageIn

\* Every RPC slot is used, clients and servers alternate, allocation never
\* fails and throttling is on.
Init ==
    /\ Quiet
    /\ slots = Rpcs
    /\ is_client = [r \in Rpcs |-> r % 2 = 1]
    /\ rtt_bytes \in RttChoices
    /\ dont_throttle = FALSE
    /\ alloc_fail = FALSE
    /\ xmit_fail = FALSE
    /\ max_gro_skbs = MaxGro
    /\ max_nic_queue_cycles = 0
    /\ dev_gso_max_size = gso_max_size
    /\ max_sched_prio = 0

\* One RPC of either role; allocation may fail.
InitOne ==
    /\ Quiet
    /\ slots = {1}
    /\ is_client \in [Rpcs -> BOOLEAN]
    /\ \A r \in Rpcs \ {1} : is_client[r]
    /\ rtt_bytes \in RttChoices
    /\ dont_throttle = FALSE
    /\ alloc_fail = TRUE
    /\ xmit_fail = FALSE
    /\ max_gro_skbs = MaxGro
    /\ max_nic_queue_cycles = 0
    /\ dev_gso_max_size = gso_max_size
    /\ max_sched_prio = 0

\* get_cycles() advances.
Tick ==
    /\ now < MaxTime
    /\ now' = now + 1
    /\ sent' = <<>>
    /\ call' = NoCall
    /\ UNCHANGED <<msgout, state, lock, throttled_rpcs, link_idle_time,
                   pacer_active, pc, iter, cur, env, other_state>>

(***************************************************************************)
(* The reference counts of the buffers of a message.  alloc_skb returns a  *)
(* buffer with one reference, which the message holds; skb_get adds one    *)
(* for ip_queue_xmit, which keeps it until the packet has left ("ok"), or  *)
(* reports an error and has freed the buffer ("freed") or has not          *)
(* ("kept").                                                               *)
(***************************************************************************)
XmitOutcomes == IF xmit_fail THEN {"ok", "freed", "kept"} ELSE {"ok"}

NewSkb == [users |-> 1, queued |-> 0]

\* The references of n buffers fresh from alloc_skb.
NewSkbs(n) == [i \in 1..n |-> NewSkb]

\* The buffer is handed over without a reference of its own.
skb_get_forgotten(b) == b

skb_get(b) == [b EXCEPT !.users = @ + 1]

kfree_skb(b) == [b EXCEPT !.users = @ - 1]

ip_queue_xmit(b, outcome) ==
    CASE outcome = "ok" -> [b EXCEPT !.queued = @ + 1]
      [] outcome = "freed" -> kfree_skb(b)
      [] outcome = "kept" -> b

\* "if (err) { ... if (refcount_read(&skb->users) > 1) kfree_skb(skb); }"
xmit_data_refs(b, outcome) ==
    LET a == ip_queue_xmit(b, outcome)
    IN  IF outcome # "ok" /\ a.users > 1 THEN kfree_skb(a) ELSE a

\* "skb_get(skb); __homa_xmit_data(skb, rpc, priority);" for every buffer
\* that homa_xmit_data handed over; outcome[k] is what ip_queue_xmit did
\* with the k-th of them.
AfterXmit(rf, out, outcome) ==
    [i \in 1..Len(rf) |->
        IF \E k \in 1..Len(out) : out[k].index = i
        THEN LET k == CHOOSE k \in 1..Len(out) : out[k].index = i
             IN  xmit_data_refs(skb_get(rf[i]), outcome[k])
        ELSE rf[i]]

\* kfree_skb on every buffer of a chain.
ReleaseAll(rf) == [i \in 1..Len(rf) |-> kfree_skb(rf[i])]

(***************************************************************************)
(* The callers of homa_xmit_data outside the pacer.  Thread t holds the    *)
(* lock of RPC r, has brought its msgout to m, and now calls               *)
(* homa_xmit_data(rpc, false); a server RPC whose last buffer went out     *)
(* is freed.  The thread still holds the lock afterwards.                  *)
(***************************************************************************)
XmitAsSender(t, r, m, rf, client, st) ==
    LET w0 == [World EXCEPT !.mo[r] = m]
        w == homa_xmit_data(r, FALSE, w0, now, FALSE)
        done == (w.mo[r].next_packet = NULL) /\ ~client
    IN  /\ msgout' = w.mo
        /\ \E outcome \in [1..Len(w.out) -> XmitOutcomes] :
               refs' = [refs EXCEPT ![r] = AfterXmit(rf, w.out, outcome)]
        /\ link_idle_time' = w.idle
        /\ throttled_rpcs' = IF done THEN homa_rpc_free_list(w.thr, r)
                             ELSE w.thr
        /\ throttled_links' = IF done THEN homa_rpc_free_links(w.links, r)
                              ELSE w.links
        /\ state' = IF done THEN homa_rpc_free_state(st, r) ELSE st
        /\ sent' = w.out
        /\ lock' = [lock EXCEPT ![r] = t]
        /\ pc' = [pc EXCEPT ![t] = "locked"]
        /\ cur' = [cur EXCEPT ![t] = r]

\* The states in which a message is sent: a new RPC, or a server RPC whose
\* request the application has read.
SendStates(client) == IF client THEN {"NONE"} ELSE {"NONE", "IN_SERVICE"}

\* A message is sent: a client's request (client) or a server's response.
Send(t, r, len) ==
    LET filled == homa_fill_packets(len, mtu, dev_gso_max_size, rtt_bytes, 0)
    IN  /\ t # "pacer"
        /\ pc[t] = "idle"
        /\ r \in slots
        /\ state[r] \in SendStates(is_client[r])
        /\ lock[r] = NoThread
        /\ filled.err = 0
        /\ XmitAsSender(t, r,
               homa_message_out_init(filled.packets, len, rtt_bytes),
               NewSkbs(Len(filled.packets)),
               is_client[r], [state EXCEPT ![r] = "OUTGOING"])
        /\ call' = [fn |-> "homa_message_out_init", rpc |-> r]
        /\ UNCHANGED <<pacer_active, now, iter, env, sync_state,
                       gro, ctl>>

\* A GRANT packet for RPC r arrives with the given offset.
GrantedAfter(m, offset) ==
    IF offset > m.granted THEN Min(offset, m.length) ELSE m.granted

Grant(t, r, offset, priority) ==
    /\ t # "pacer"
    /\ pc[t] = "idle"
    /\ state[r] = "OUTGOING"
    /\ lock[r] = NoThread
    /\ XmitAsSender(t, r,
           [msgout[r] EXCEPT !.granted = GrantedAfter(msgout[r], offset),
                             !.sched_priority = priority],
           refs[r], is_client[r], state)
    /\ call' = [fn |-> "grant", rpc |-> r, granted |-> msgout[r].granted]
    /\ UNCHANGED <<pacer_active, now, iter, env, sync_state,
                       gro, ctl>>

\* A RESTART packet for client RPC r arrives.
AllocChoices(m) ==
    {ok \in [1..Len(m.packets) -> BOOLEAN] :
        alloc_fail \/ \A i \in 1..Len(m.packets) : ok[i]}

Restart(t, r) ==
    /\ t # "pacer"
    /\ pc[t] = "idle"
    /\ state[r] \in {"OUTGOING", "INCOMING"}
    /\ is_client[r]
    /\ lock[r] = NoThread
    /\ link_idle_time <= MaxIdle
    /\ \E alloc_ok \in AllocChoices(msgout[r]) :
           /\ XmitAsSender(t, r, homa_message_out_reset(msgout[r], alloc_ok),
                  NewSkbs(Len(homa_message_out_reset(msgout[r],
                                                     alloc_ok).packets)),
                  TRUE, [state EXCEPT ![r] = "OUTGOING"])
           /\ call' = [fn |-> "homa_message_out_reset", rpc |-> r,
                       was |-> state[r],
                       released |-> ReleaseAll(refs[r]),
                       granted |-> msgout[r].granted,
                       err |-> reset_err(msgout[r], alloc_ok),
                       before |-> msgout[r],
                       after |-> homa_message_out_reset(msgout[r],
                                                        alloc_ok)]
    /\ UNCHANGED <<pacer_active, now, iter, env, sync_state,
                       gro, ctl>>

\* homa_rpc_unlock by a thread that finished a handler.
Unlock(t) ==
    /\ pc[t] = "locked"
    /\ lock' = [lock EXCEPT ![cur[t]] = NoThread]
    /\ pc' = [pc EXCEPT ![t] = "idle"]
    /\ cur' = [cur EXCEPT ![t] = NULL]
    /\ sent' = <<>>
    /\ call' = NoCall
    /\ UNCHANGED <<msgout, state, throttled_rpcs, link_idle_time,
                   pacer_active, now, iter, env, other_state>>

(***************************************************************************)
(* check_pacer and homa_pacer_main: the two ways into homa_pacer_xmit.     *)
(***************************************************************************)
OverCap == (now + max_nic_queue_cycles) < link_idle_time

CheckPacer(t) ==
    /\ t # "pacer"
    /\ pc[t] = "idle"
    /\ throttled_rpcs # <<>>
    /\ ~OverCap
    /\ pc' = [pc EXCEPT ![t] = "pacer_xmit"]
    /\ sent' = <<>>
    /\ call' = NoCall
    /\ UNCHANGED <<msgout, state, lock, throttled_rpcs, link_idle_time,
                   pacer_active, now, iter, cur, env, other_state>>

PacerMain(t) ==
    /\ t = "pacer"
    /\ pc[t] = "idle"
    /\ pc' = [pc EXCEPT ![t] = "pacer_xmit"]
    /\ sent' = <<>>
    /\ call' = NoCall
    /\ UNCHANGED <<msgout, state, lock, throttled_rpcs, link_idle_time,
                   pacer_active, now, iter, cur, env, other_state>>

(***************************************************************************)
(* homa_pacer_xmit, one action per step of the function.                   *)
(***************************************************************************)
\* atomic_cmpxchg(&homa->pacer_active, 0, 1): TRUE when the caller may go on.
\* The result of the compare-and-swap is ignored.
PacerMayEnter_unchecked(active) == TRUE

PacerMayEnter(active) == active = 0

PacerCmpxchg(t) ==
    /\ pc[t] = "pacer_xmit"
    /\ IF PacerMayEnter(pacer_active)
       THEN /\ pacer_active' = 1
            /\ pc' = [pc EXCEPT ![t] = "loop"]
            /\ iter' = [iter EXCEPT ![t] = 0]
       ELSE /\ pc' = [pc EXCEPT ![t] = "idle"]
            /\ UNCHANGED <<pacer_active, iter>>
    /\ sent' = <<>>
    /\ call' = [fn |-> "atomic_cmpxchg", thread |-> t, old |-> pacer_active]
    /\ UNCHANGED <<msgout, state, lock, throttled_rpcs, link_idle_time,
                   now, cur, env, other_state>>

\* The function returns from inside the loop.
LeaveLoop_return == "idle"

\* Where "break" and "goto done" lead: the label done.
LeaveLoop == "done"

\* Top of the loop: the bound on the iterations and the wait for the NIC
\* queue to get short.  With i = 0 the thread spins until the clock advances.
PacerWait(t) ==
    /\ pc[t] = "loop"
    /\ (iter[t] < PACER_MAX_ITERATIONS /\ OverCap) => iter[t] # 0
    /\ pc' = [pc EXCEPT ![t] =
                 IF iter[t] >= PACER_MAX_ITERATIONS THEN LeaveLoop
                 ELSE IF OverCap THEN LeaveLoop ELSE "take"]
    /\ sent' = <<>>
    /\ call' = NoCall
    /\ UNCHANGED <<msgout, state, lock, throttled_rpcs, link_idle_time,
                   pacer_active, now, iter, cur, env, other_state>>

\* Under the throttle lock: take the first throttled RPC and try its lock.
PacerTake(t) ==
    /\ pc[t] = "take"
    /\ IF throttled_rpcs = <<>> \/ lock[Head(throttled_rpcs)] # NoThread
       THEN /\ pc' = [pc EXCEPT ![t] = LeaveLoop]
            /\ UNCHANGED <<lock, cur>>
       ELSE /\ lock' = [lock EXCEPT ![Head(throttled_rpcs)] = t]
            /\ cur' = [cur EXCEPT ![t] = Head(throttled_rpcs)]
            /\ pc' = [pc EXCEPT ![t] = "xmit"]
    /\ sent' = <<>>
    /\ call' = NoCall
    /\ UNCHANGED <<msgout, state, throttled_rpcs, link_idle_time,
                   pacer_active, now, iter, env, other_state>>

\* homa_xmit_data(rpc, true).
PacerXmit(t) ==
    LET w == homa_xmit_data(cur[t], TRUE, World, now, TRUE)
    IN  /\ pc[t] = "xmit"
        /\ msgout' = w.mo
        /\ link_idle_time' = w.idle
        /\ throttled_rpcs' = w.thr
        /\ throttled_links' = w.links
        /\ \E outcome \in [1..Len(w.out) -> XmitOutcomes] :
               refs' = [refs EXCEPT ![cur[t]] =
                           AfterXmit(refs[cur[t]], w.out, outcome)]
        /\ sent' = w.out
        /\ call' = [fn |-> "homa_pacer_xmit", rpc |-> cur[t]]
        /\ pc' = [pc EXCEPT ![t] = "unlink"]
        /\ UNCHANGED <<state, lock, pacer_active, now, iter, cur, env,
                       sync_state, gro, ctl>>

\* The pacer keeps every RPC it has served on the list.
NothingToTransmit_never(m) == FALSE

\* The test after homa_xmit_data: nothing more to transmit right now.
NothingToTransmit(m) ==
    (m.next_packet = NULL)
    \/ (homa_data_offset(m.packets[m.next_packet]) >= m.granted)

\* The links of an RPC become an empty list that points to itself.
INIT_LIST_HEAD_RCU(links, r) == [links EXCEPT ![r] = FALSE]

\* The pacer leaves a finished response to be freed by someone else.
PacerFrees_never(m, client) == FALSE

\* "if (!rpc->msgout.next_packet && !rpc->is_client) homa_rpc_free(rpc)".
PacerFrees(m, client) == (m.next_packet = NULL) /\ ~client

PacerUnlink(t) ==
    LET r == cur[t]
        m == msgout[r]
        free == PacerFrees(m, is_client[r])
        unlink == NothingToTransmit(m) /\ throttled_links[r]
        thr == IF unlink THEN ListDel(throttled_rpcs, r) ELSE throttled_rpcs
        links == IF unlink THEN INIT_LIST_HEAD_RCU(throttled_links, r)
                 ELSE throttled_links
    IN  /\ pc[t] = "unlink"
        /\ NothingToTransmit(m) => throttle_lock = NoThread
        /\ throttled_rpcs' = IF free THEN homa_rpc_free_list(thr, r) ELSE thr
        /\ throttled_links' = IF free THEN homa_rpc_free_links(links, r)
                              ELSE links
        /\ state' = IF free THEN homa_rpc_free_state(state, r) ELSE state
        /\ lock' = [lock EXCEPT ![r] = NoThread]
        /\ cur' = [cur EXCEPT ![t] = NULL]
        /\ iter' = [iter EXCEPT ![t] = @ + 1]
        /\ pc' = [pc EXCEPT ![t] = "loop"]
        /\ sent' = <<>>
        /\ call' = NoCall
        /\ UNCHANGED <<msgout, link_idle_time, pacer_active, now, env,
                       sync_state, refs, gro, ctl, ctl>>

\* done: atomic_set(&homa->pacer_active, 0).
PacerDone(t) ==
    /\ pc[t] = "done"
    /\ pacer_active' = 0
    /\ pc' = [pc EXCEPT ![t] = "idle"]
    /\ iter' = [iter EXCEPT ![t] = 0]
    /\ sent' = <<>>
    /\ call' = NoCall
    /\ UNCHANGED <<msgout, state, lock, throttled_rpcs, link_idle_time,
                   now, cur, env, other_state>>

Next ==
    \/ Tick
    \/ \E t \in Threads, r \in Rpcs, len \in 1..MaxLen : Send(t, r, len)
    \/ \E t \in Threads, r \in Rpcs, offset \in 1..MaxLen,
           priority \in 0..max_sched_prio : Grant(t, r, offset, priority)
    \/ \E t \in Threads, r \in Rpcs : Restart(t, r)
    \/ \E t \in Threads : Unlock(t)
    \/ \E t \in Threads : CheckPacer(t)
    \/ \E t \in Threads : PacerMain(t)
    \/ \E t \in Threads : PacerCmpxchg(t)
    \/ \E t \in Threads : PacerWait(t)
    \/ \E t \in Threads : PacerTake(t)
    \/ \E t \in Threads : PacerXmit(t)
    \/ \E t \in Threads : PacerUnlink(t)
    \/ \E t \in Threads : PacerDone(t)

Spec == Init /\ [][Next]_vars

SpecOne == InitOne /\ [][Next]_vars

(***************************************************************************)
(* homa_check_nic_queue on its own: any thread calls it, forced or not, on *)
(* a buffer of one or two segments, under each setting of                  *)
(* HOMA_FLAG_DONT_THROTTLE and of max_nic_queue_cycles.                    *)
(***************************************************************************)
NicQueueChoices == {0, 1}

NicBuffer(nsegs) ==
    [segs |-> [i \in 1..nsegs |-> [offset |-> 2 * (i - 1), length |-> 2]],
     incoming |-> 2 * nsegs, retransmit |-> 0]

InitNic ==
    /\ Quiet
    /\ slots = {}
    /\ is_client = [r \in Rpcs |-> TRUE]
    /\ rtt_bytes \in RttChoices
    /\ dont_throttle \in BOOLEAN
    /\ alloc_fail = FALSE
    /\ xmit_fail = FALSE
    /\ max_gro_skbs = MaxGro
    /\ max_nic_queue_cycles \in NicQueueChoices
    /\ dev_gso_max_size = gso_max_size
    /\ max_sched_prio = 0

NicCall(force, nsegs) ==
    LET cost == cycles_for_packet(NicBuffer(nsegs))
        res == homa_check_nic_queue(now, link_idle_time, cost, force,
                                    dont_throttle, max_nic_queue_cycles)
    IN  /\ link_idle_time <= MaxIdle
        /\ link_idle_time' = res.idle
        /\ call' = [fn |-> "homa_check_nic_queue", clock |-> now,
                    idle |-> link_idle_time, force |-> force, cost |-> cost,
                    ret |-> res.ret]
        /\ sent' = <<>>
        /\ UNCHANGED <<msgout, state, lock, throttled_rpcs, pacer_active,
                       now, pc, iter, cur, env, other_state>>

NextNic ==
    \/ Tick
    \/ \E force \in BOOLEAN, nsegs \in 1..2 : NicCall(force, nsegs)

SpecNic == InitNic /\ [][NextNic]_vars

(***************************************************************************)
(* homa_fill_packets on its own: short messages under small MTUs, and      *)
(* messages around the largest permitted length under the loopback MTU.    *)
(***************************************************************************)
LoopbackMtu == 65536

FillInputs ==
    {[len |-> l, mtu |-> m, gso |-> g] :
        l \in 0..MaxLen, m \in {mtu - 1, mtu, mtu + 1},
        g \in {gso_max_size, 2 * gso_max_size}}
    \cup
    {[len |-> l, mtu |-> LoopbackMtu, gso |-> LoopbackMtu] :
        l \in (HOMA_MAX_MESSAGE_LENGTH - 1)..(HOMA_MAX_MESSAGE_LENGTH + 1)}

InitFill ==
    /\ Quiet
    /\ slots = {}
    /\ is_client = [r \in Rpcs |-> TRUE]
    /\ rtt_bytes \in RttChoices
    /\ dont_throttle = FALSE
    /\ alloc_fail \in BOOLEAN
    /\ xmit_fail = FALSE
    /\ max_gro_skbs = MaxGro
    /\ max_nic_queue_cycles = 0
    /\ dev_gso_max_size = gso_max_size
    /\ max_sched_prio = 0

FillCall(in, fail_at) ==
    LET res == homa_fill_packets(in.len, in.mtu, in.gso, rtt_bytes, fail_at)
    IN  /\ fail_at > 0 => alloc_fail
        /\ call' = [fn |-> "homa_fill_packets", len |-> in.len,
                    mtu |-> in.mtu, gso |-> in.gso, fail_at |-> fail_at,
                    err |-> res.err, buffers |-> Len(res.packets),
                    packets |-> res.packets]
        /\ sent' = <<>>
        /\ UNCHANGED <<msgout, state, lock, throttled_rpcs, link_idle_time,
                       pacer_active, now, pc, iter, cur, env, other_state>>

NextFill ==
    \/ Tick
    \/ \E in \in FillInputs, fail_at \in 0..2 : FillCall(in, fail_at)

SpecFill == InitFill /\ [][NextFill]_vars

(***************************************************************************)
(* homa_resend_data(rpc, start, end, priority), run at time clock on the   *)
(* message m of RPC r.  alloc_ok[i] tells whether alloc_skb succeeds for   *)
(* the copy of segment i of the message (segments counted in chain order). *)
(* acc holds the packets passed to __homa_xmit_data so far, link_idle_time *)
(* and the increments of the metrics.                                      *)
(***************************************************************************)
\* "end <= offset": the scan is over.
PastRange(offset, end) == end <= offset

\* A segment that ends where the range starts is taken as well.
BeforeRange_late(offset, length, start) == (offset + length) < start

\* "(offset + length) <= start": the segment precedes the range.
BeforeRange(offset, length, start) == (offset + length) <= start

\* incoming is the end of the requested range, whatever the segment.
ResendIncoming_end(offset, length, end) == end

\* h->incoming of a retransmitted packet.
ResendIncoming(offset, length, end) ==
    IF (offset + length) > end THEN offset + length ELSE end

\* The NIC queue is consulted without force.
ResendForce_unforced == FALSE

\* The force argument of homa_check_nic_queue in homa_resend_data.
ResendForce == TRUE

\* An allocation failure ends the retransmission.
OnAllocFailure_return(continued, returned) == returned

\* "continue" after a failed alloc_skb: the scan goes on with the next
\* segment.
OnAllocFailure(continued, returned) == continued

ResentRecord(r, m, new_skb, priority) ==
    [rpc |-> r, index |-> NULL,
     offset |-> homa_data_offset(new_skb),
     end |-> homa_data_offset(new_skb) + BufferBytes(new_skb),
     granted |-> m.granted, pacer |-> FALSE, priority |-> priority,
     skb |-> new_skb]

\* The counters of homa_metrics that the transmission of data increments
\* (ip_queue_xmit does not fail: data_xmit_errors stays as it is).
NoMetrics == [resent_packets |-> 0, packets_sent |-> 0,
              data_xmit_errors |-> 0]

RECURSIVE ResendScan(_, _, _, _, _, _, _, _, _)
\* The index of the buffer that holds segment i of the chain.
RECURSIVE BufferOf(_, _, _)
BufferOf(packets, i, k) ==
    IF i <= Len(packets[k].segs) THEN k
    ELSE BufferOf(packets, i - Len(packets[k].segs), k + 1)

\* The header fields are written into the buffer of the message.
RetransmitHeader_original(packets, k) ==
    [packets EXCEPT ![k].retransmit = 1]

\* "h = ((struct data_header *) skb_transport_header(new_skb))": the fields
\* are written into the copy, buffer k of the chain is only read.
RetransmitHeader(packets, k) == packets

ResendScan(r, m, i, start, end, priority, alloc_ok, clock, acc) ==
    LET segs == Segments(m.packets)
        offset == segs[i].offset
        length == segs[i].length
        new_skb == [segs |-> <<segs[i]>>,
                    incoming |-> ResendIncoming(offset, length, end),
                    retransmit |-> 1]
        nic == homa_check_nic_queue(clock, acc.idle,
                   cycles_for_packet(new_skb), ResendForce, dont_throttle,
                   max_nic_queue_cycles)
        next(a) == ResendScan(r, m, i + 1, start, end, priority, alloc_ok,
                              clock, a)
    IN  IF i > Len(segs) THEN acc
        ELSE IF PastRange(offset, end) THEN acc
        ELSE IF BeforeRange(offset, length, start) THEN next(acc)
        ELSE IF ~alloc_ok[i] THEN OnAllocFailure(next(acc), acc)
        ELSE next([out |-> Append(acc.out,
                              ResentRecord(r, m, new_skb, priority)),
                   idle |-> nic.idle,
                   packets |-> RetransmitHeader(acc.packets,
                                   BufferOf(m.packets, i, 1)),
                   metrics |-> [acc.metrics EXCEPT
                                   !.resent_packets = @ + 1,
                                   !.packets_sent = @ + 1]])

homa_resend_data(r, m, start, end, priority, alloc_ok, clock, idle) ==
    ResendScan(r, m, 1, start, end, priority, alloc_ok, clock,
               [out |-> <<>>, idle |-> idle, packets |-> m.packets,
                metrics |-> NoMetrics])

(***************************************************************************)
(* A RESEND packet for RPC r arrives: the handler locks the RPC and calls  *)
(* homa_resend_data for the range and the priority the packet names.       *)
(***************************************************************************)
ResendPriorities == {0, 7}

DeviceChoices == {gso_max_size, 2 * gso_max_size}

\* alloc_skb is attempted for the segments of the range only.
ResendAllocChoices(m, start, end) ==
    LET segs == Segments(m.packets)
    IN  {ok \in [1..Len(segs) -> BOOLEAN] :
            \A i \in 1..Len(segs) :
                ~ok[i] => /\ alloc_fail
                          /\ segs[i].offset < end
                          /\ segs[i].offset + segs[i].length > start}

Resend(t, r, start, end, priority) ==
    /\ t # "pacer"
    /\ pc[t] = "idle"
    /\ state[r] = "OUTGOING"
    /\ lock[r] = NoThread
    /\ link_idle_time <= MaxIdle
    /\ \E alloc_ok \in ResendAllocChoices(msgout[r], start, end) :
           LET res == homa_resend_data(r, msgout[r], start, end, priority,
                                       alloc_ok, now, link_idle_time)
           IN  /\ link_idle_time' = res.idle
               /\ msgout' = [msgout EXCEPT ![r].packets = res.packets]
               /\ sent' = res.out
               /\ call' = [fn |-> "homa_resend_data", rpc |-> r,
                           start |-> start, end |-> end,
                           priority |-> priority, alloc_ok |-> alloc_ok,
                           clock |-> now, idle |-> link_idle_time,
                           throttled |-> throttled_rpcs,
                           packets |-> msgout[r].packets,
                           metrics |-> res.metrics]
    /\ lock' = [lock EXCEPT ![r] = t]
    /\ pc' = [pc EXCEPT ![t] = "locked"]
    /\ cur' = [cur EXCEPT ![t] = r]
    /\ UNCHANGED <<state, throttled_rpcs, pacer_active, now, iter,
                   env, other_state>>

InitResend ==
    /\ Quiet
    /\ slots = {1}
    /\ is_client = [r \in Rpcs |-> TRUE]
    /\ rtt_bytes \in RttChoices
    /\ dont_throttle = FALSE
    /\ alloc_fail = TRUE
    /\ xmit_fail = FALSE
    /\ max_gro_skbs = MaxGro
    /\ max_nic_queue_cycles = 0
    /\ dev_gso_max_size \in DeviceChoices
    /\ max_sched_prio = 0

NextResend ==
    \/ Tick
    \/ \E t \in Threads, r \in Rpcs, len \in 1..MaxLen : Send(t, r, len)
    \/ \E t \in Threads : Unlock(t)
    \/ \E t \in Threads, r \in Rpcs, start \in 0..MaxLen,
           end \in 0..(MaxLen + 1), priority \in ResendPriorities :
           Resend(t, r, start, end, priority)

SpecResend == InitResend /\ [][NextResend]_vars

(***************************************************************************)
(* homa_check_nic_queue line by line, called by several threads at once.   *)
(* nic_call[t] holds the locals of thread t: force, cycles_for_packet      *)
(* (cost), clock, idle, new_idle and whether a compare-and-swap has        *)
(* failed (retried).  charged adds up cycles_for_packet of every call that *)
(* returned 1.                                                             *)
(***************************************************************************)
NicFrame ==
    /\ sent' = <<>>
    /\ UNCHANGED <<msgout, state, lock, throttled_rpcs, throttled_links,
                   refs, gro, ctl,
                   pacer_active, now, pc, iter, cur, env, throttle_lock,
                   task_state, msgin>>

\* The call: the locals before the loop.
NicEnter(t, force, nsegs) ==
    /\ nic_call[t] = NoNic
    /\ link_idle_time <= MaxIdle
    /\ nic_call' = [nic_call EXCEPT ![t] =
                       [pc |-> "read", force |-> force,
                        cost |-> cycles_for_packet(NicBuffer(nsegs)),
                        clock |-> 0, idle |-> 0, new_idle |-> 0,
                        retried |-> FALSE]]
    /\ call' = NoCall
    /\ UNCHANGED <<link_idle_time, charged>>
    /\ NicFrame

\* get_cycles, atomic64_read, the test that returns 0 and the computation
\* of new_idle.
NicRead(t) ==
    LET c == nic_call[t]
        idle == link_idle_time
        refused == ((now + max_nic_queue_cycles) < idle) /\ ~c.force
                   /\ ~dont_throttle
    IN  /\ c.pc = "read"
        /\ IF refused
           THEN /\ nic_call' = [nic_call EXCEPT ![t] = NoNic]
                /\ call' = [fn |-> "homa_check_nic_queue", thread |-> t,
                            ret |-> 0, clock |-> now, idle |-> idle,
                            force |-> c.force, cost |-> c.cost,
                            retried |-> c.retried]
           ELSE /\ nic_call' = [nic_call EXCEPT ![t] =
                       [c EXCEPT !.pc = "cas", !.clock = now, !.idle = idle,
                                 !.new_idle = IF idle < now THEN now + c.cost
                                              ELSE idle + c.cost]]
                /\ call' = NoCall
        /\ UNCHANGED <<link_idle_time, charged>>
        /\ NicFrame

\* The new value is stored whatever link_idle_time holds.
CasSucceeds_blind(current, expected) == TRUE

\* "atomic64_cmpxchg_relaxed(&homa->link_idle_time, idle, new_idle) == idle".
CasSucceeds(current, expected) == current = expected

NicCas(t) ==
    LET c == nic_call[t]
    IN  /\ c.pc = "cas"
        /\ IF CasSucceeds(link_idle_time, c.idle)
           THEN /\ link_idle_time' = c.new_idle
                /\ charged' = charged + c.cost
                /\ nic_call' = [nic_call EXCEPT ![t] = NoNic]
                /\ call' = [fn |-> "homa_check_nic_queue", thread |-> t,
                            ret |-> 1, clock |-> c.clock, idle |-> c.idle,
                            force |-> c.force, cost |-> c.cost,
                            retried |-> c.retried]
           ELSE /\ nic_call' = [nic_call EXCEPT ![t] =
                       [c EXCEPT !.pc = "read", !.clock = 0, !.idle = 0,
                                 !.new_idle = 0, !.retried = TRUE]]
                /\ call' = NoCall
                /\ UNCHANGED <<link_idle_time, charged>>
        /\ NicFrame

NextCas ==
    \/ Tick
    \/ \E t \in Threads, force \in BOOLEAN, nsegs \in 1..2 :
           NicEnter(t, force, nsegs)
    \/ \E t \in Threads : NicRead(t)
    \/ \E t \in Threads : NicCas(t)

SpecCas == InitNic /\ [][NextCas]_vars

(***************************************************************************)
(* The throttle lock and the sleep of the pacer thread, line by line.      *)
(* A sender that has to link its RPC into the throttled list, or to unlink *)
(* an RPC it frees, does so in steps of its own; the pacer takes the       *)
(* throttle lock and tries the lock of the first RPC in two steps; and     *)
(* homa_pacer_main sets its task state, looks at the list and calls        *)
(* schedule().  The pacer thread sleeps while it is at "schedule" with     *)
(* task_state = "INTERRUPTIBLE".                                           *)
(***************************************************************************)
\* Parts of the state that the steps on locks leave alone.
Untouched == UNCHANGED <<env, nic_call, charged, msgin, gro, ctl>>

\* homa_xmit_data(rpc, false) by a sender, up to the first test of
\* homa_add_to_throttled and to the unlinking done by homa_rpc_free.
XmitThenPark(t, r, m, rf, client, st) ==
    LET w0 == [World EXCEPT !.mo[r] = m]
        w == homa_xmit_data(r, FALSE, w0, now, FALSE)
        done == (w.mo[r].next_packet = NULL) /\ ~client
        parks == w.thr # throttled_rpcs
        unlinks == done /\ throttled_links[r]
    IN  /\ msgout' = w.mo
        /\ \E outcome \in [1..Len(w.out) -> XmitOutcomes] :
               refs' = [refs EXCEPT ![r] = AfterXmit(rf, w.out, outcome)]
        /\ link_idle_time' = w.idle
        /\ state' = IF done THEN homa_rpc_free_state(st, r) ELSE st
        /\ sent' = w.out
        /\ lock' = [lock EXCEPT ![r] = t]
        /\ pc' = [pc EXCEPT ![t] = IF parks THEN "add_lock"
                                   ELSE IF unlinks THEN "free_lock"
                                   ELSE "locked"]
        /\ cur' = [cur EXCEPT ![t] = r]
        /\ UNCHANGED <<throttled_rpcs, throttled_links, throttle_lock,
                       task_state, pacer_active, iter, now>>
        /\ Untouched

SendByLine(t, r, len) ==
    LET filled == homa_fill_packets(len, mtu, dev_gso_max_size, rtt_bytes, 0)
    IN  /\ t # "pacer"
        /\ pc[t] = "idle"
        /\ r \in slots
        /\ state[r] \in SendStates(is_client[r])
        /\ lock[r] = NoThread
        /\ filled.err = 0
        /\ XmitThenPark(t, r,
               homa_message_out_init(filled.packets, len, rtt_bytes),
               NewSkbs(Len(filled.packets)),
               is_client[r], [state EXCEPT ![r] = "OUTGOING"])
        /\ call' = [fn |-> "homa_message_out_init", rpc |-> r]

GrantByLine(t, r, offset, priority) ==
    /\ t # "pacer"
    /\ pc[t] = "idle"
    /\ state[r] = "OUTGOING"
    /\ lock[r] = NoThread
    /\ XmitThenPark(t, r,
           [msgout[r] EXCEPT !.granted = GrantedAfter(msgout[r], offset),
                             !.sched_priority = priority],
           refs[r], is_client[r], state)
    /\ call' = [fn |-> "grant", rpc |-> r, granted |-> msgout[r].granted]

\* A step that only moves locks, the list or the pacer's task state.
LockStep ==
    /\ sent' = <<>>
    /\ UNCHANGED <<msgout, state, link_idle_time, pacer_active, now, iter,
                   refs, gro, ctl, ctl>>
    /\ Untouched

\* The lock is left held.
homa_throttle_unlock_forgotten(t) == t

homa_throttle_unlock(t) == NoThread

\* homa_add_to_throttled: homa_throttle_lock.
AddThrottleLock(t) ==
    /\ pc[t] = "add_lock"
    /\ throttle_lock = NoThread
    /\ throttle_lock' = t
    /\ pc' = [pc EXCEPT ![t] = "add_insert"]
    /\ call' = NoCall
    /\ UNCHANGED <<lock, cur, throttled_rpcs, task_state,
                   throttled_links>>
    /\ LockStep

\* homa_add_to_throttled: the scan, the insertion and homa_throttle_unlock.
AddInsert(t) ==
    /\ pc[t] = "add_insert"
    /\ throttle_lock = t
    /\ throttled_rpcs' = ThrottledInsert(cur[t], msgout, throttled_rpcs)
    /\ throttled_links' = [throttled_links EXCEPT ![cur[t]] = TRUE]
    /\ throttle_lock' = homa_throttle_unlock(t)
    /\ pc' = [pc EXCEPT ![t] = "add_wake"]
    /\ call' = [fn |-> "homa_add_to_throttled", rpc |-> cur[t]]
    /\ UNCHANGED <<lock, cur, task_state>>
    /\ LockStep

\* The wake-up does not reach the pacer thread.
wake_up_process_lost(st) == st

\* wake_up_process(homa->pacer_kthread): the task becomes runnable.
wake_up_process(st) == "RUNNING"

\* homa_add_to_throttled: wake_up_process.
AddWake(t) ==
    /\ pc[t] = "add_wake"
    /\ task_state' = wake_up_process(task_state)
    /\ pc' = [pc EXCEPT ![t] = "locked"]
    /\ call' = NoCall
    /\ UNCHANGED <<lock, cur, throttled_rpcs, throttle_lock,
                   throttled_links>>
    /\ LockStep

\* homa_rpc_free by a sender: the RPC is unlinked under the throttle lock.
FreeUnlink(t) ==
    /\ pc[t] = "free_lock"
    /\ throttle_lock = NoThread
    /\ throttled_rpcs' = homa_rpc_free_list(throttled_rpcs, cur[t])
    /\ throttled_links' = homa_rpc_free_links(throttled_links, cur[t])
    /\ pc' = [pc EXCEPT ![t] = "locked"]
    /\ call' = [fn |-> "homa_rpc_free", rpc |-> cur[t]]
    /\ UNCHANGED <<lock, cur, throttle_lock, task_state>>
    /\ LockStep

\* homa_pacer_main: set_current_state(TASK_INTERRUPTIBLE), after
\* homa_pacer_xmit has returned.
MainSetState(t) ==
    /\ t = "pacer"
    /\ pc[t] = "idle"
    /\ task_state' = "INTERRUPTIBLE"
    /\ pc' = [pc EXCEPT ![t] = "check_list"]
    /\ call' = NoCall
    /\ UNCHANGED <<lock, cur, throttled_rpcs, throttle_lock,
                   throttled_links>>
    /\ LockStep

\* homa_pacer_main: back to TASK_RUNNING unless the list is empty.
MainCheck(t) ==
    /\ pc[t] = "check_list"
    /\ task_state' = IF throttled_rpcs = <<>> THEN task_state ELSE "RUNNING"
    /\ pc' = [pc EXCEPT ![t] = "schedule"]
    /\ call' = NoCall
    /\ UNCHANGED <<lock, cur, throttled_rpcs, throttle_lock,
                   throttled_links>>
    /\ LockStep

\* homa_pacer_main: schedule() returns to a runnable task, which goes
\* round the loop and calls homa_pacer_xmit.
MainSchedule(t) ==
    /\ pc[t] = "schedule"
    /\ task_state = "RUNNING"
    /\ pc' = [pc EXCEPT ![t] = "pacer_xmit"]
    /\ call' = [fn |-> "schedule"]
    /\ UNCHANGED <<lock, cur, throttled_rpcs, throttle_lock, task_state,
                   throttled_links>>
    /\ LockStep

\* homa_pacer_xmit: homa_throttle_lock.
PacerThrottleLock(t) ==
    /\ pc[t] = "take"
    /\ throttle_lock = NoThread
    /\ throttle_lock' = t
    /\ pc' = [pc EXCEPT ![t] = "first"]
    /\ call' = NoCall
    /\ UNCHANGED <<lock, cur, throttled_rpcs, task_state,
                   throttled_links>>
    /\ LockStep

\* The pacer waits for the lock of the RPC.
TrylockFails_never(holder) == FALSE

\* "!(spin_trylock_bh(rpc->lock))".
TrylockFails(holder) == holder # NoThread

\* homa_pacer_xmit: the first throttled RPC, spin_trylock_bh on its lock
\* and homa_throttle_unlock.  A lock that is neither free nor given up on
\* keeps the thread here.
PacerTrylock(t) ==
    /\ pc[t] = "first"
    /\ throttle_lock = t
    /\ IF throttled_rpcs = <<>>
       THEN /\ pc' = [pc EXCEPT ![t] = LeaveLoop]
            /\ call' = NoCall
            /\ UNCHANGED <<lock, cur>>
       ELSE LET r == Head(throttled_rpcs)
            IN  /\ TrylockFails(lock[r]) \/ lock[r] = NoThread
                /\ IF TrylockFails(lock[r])
                   THEN /\ pc' = [pc EXCEPT ![t] = LeaveLoop]
                        /\ UNCHANGED <<lock, cur>>
                   ELSE /\ lock' = [lock EXCEPT ![r] = t]
                        /\ cur' = [cur EXCEPT ![t] = r]
                        /\ pc' = [pc EXCEPT ![t] = "xmit"]
                /\ call' = [fn |-> "spin_trylock_bh", rpc |-> r,
                            failed |-> TrylockFails(lock[r])]
    /\ throttle_lock' = homa_throttle_unlock(t)
    /\ UNCHANGED <<throttled_rpcs, throttled_links, task_state>>
    /\ LockStep

NextSync ==
    \/ Tick
    \/ \E t \in Threads, r \in Rpcs, len \in 1..MaxLen : SendByLine(t, r, len)
    \/ \E t \in Threads, r \in Rpcs, offset \in 1..MaxLen,
           priority \in 0..max_sched_prio : GrantByLine(t, r, offset, priority)
    \/ \E t \in Threads : Unlock(t)
    \/ \E t \in Threads : AddThrottleLock(t)
    \/ \E t \in Threads : AddInsert(t)
    \/ \E t \in Threads : AddWake(t)
    \/ \E t \in Threads : FreeUnlink(t)
    \/ \E t \in Threads : CheckPacer(t)
    \/ \E t \in Threads : MainSetState(t)
    \/ \E t \in Threads : MainCheck(t)
    \/ \E t \in Threads : MainSchedule(t)
    \/ \E t \in Threads : PacerCmpxchg(t)
    \/ \E t \in Threads : PacerWait(t)
    \/ \E t \in Threads : PacerThrottleLock(t)
    \/ \E t \in Threads : PacerTrylock(t)
    \/ \E t \in Threads : PacerXmit(t)
    \/ \E t \in Threads : PacerUnlink(t)
    \/ \E t \in Threads : PacerDone(t)

SpecSync == InitOne /\ [][NextSync]_vars

(***************************************************************************)
(* The life of an RPC: the receiving side of the state machine, each       *)
(* handler run as one step under the lock of the RPC.                      *)
(***************************************************************************)
Handler(t, r) ==
    /\ t # "pacer"
    /\ pc[t] = "idle"
    /\ r \in slots
    /\ lock[r] = NoThread
    /\ sent' = <<>>
    /\ UNCHANGED <<msgout, lock, link_idle_time, pacer_active, now, pc,
                   iter, cur, env, sync_state, refs, gro, ctl, ctl>>

\* The first DATA packet of a message arrives: of the reply, on a client
\* whose request has been handed over; of a request, which creates the
\* server RPC.
FirstData(t, r) ==
    /\ Handler(t, r)
    /\ IF is_client[r]
       THEN state[r] = "OUTGOING" /\ msgout[r].next_packet = NULL
       ELSE state[r] = "NONE"
    /\ state' = [state EXCEPT ![r] = "INCOMING"]
    /\ call' = [fn |-> "first_data", rpc |-> r]
    /\ UNCHANGED <<throttled_rpcs, throttled_links>>

\* bytes_remaining reaches 0.
MessageComplete(t, r) ==
    /\ Handler(t, r)
    /\ state[r] = "INCOMING"
    /\ state' = [state EXCEPT ![r] = "READY"]
    /\ call' = [fn |-> "message_complete", rpc |-> r]
    /\ UNCHANGED <<throttled_rpcs, throttled_links>>

\* The application reads the message but the client RPC stays open.
AfterConsume_reopen(client) == IF client THEN "OUTGOING" ELSE "IN_SERVICE"

AfterConsume(client) == IF client THEN "DEAD" ELSE "IN_SERVICE"

\* The application consumes the message: a client RPC is freed.
AppConsumes(t, r) ==
    /\ Handler(t, r)
    /\ state[r] = "READY"
    /\ state' = [state EXCEPT ![r] = AfterConsume(is_client[r])]
    /\ throttled_rpcs' = IF is_client[r]
                         THEN homa_rpc_free_list(throttled_rpcs, r)
                         ELSE throttled_rpcs
    /\ throttled_links' = IF is_client[r]
                          THEN homa_rpc_free_links(throttled_links, r)
                          ELSE throttled_links
    /\ call' = [fn |-> "app_consumes", rpc |-> r]

NextLife ==
    \/ Tick
    \/ \E t \in Threads, r \in Rpcs, len \in 1..MaxLen : Send(t, r, len)
    \/ \E t \in Threads, r \in Rpcs : Restart(t, r)
    \/ \E t \in Threads : Unlock(t)
    \/ \E t \in Threads, r \in Rpcs : FirstData(t, r)
    \/ \E t \in Threads, r \in Rpcs : MessageComplete(t, r)
    \/ \E t \in Threads, r \in Rpcs : AppConsumes(t, r)

SpecLife == InitOne /\ [][NextLife]_vars

(***************************************************************************)
(* The grant scheduler of a receiver, for one inbound message whose        *)
(* packets arrive in order.  msgin.incoming is the granted frontier,       *)
(* msgin.grants the offsets of the GRANTs issued so far.                   *)
(***************************************************************************)
\* The values of the large-message scenario.
ScenarioRtt == 10000

ScenarioLengths == {100000, HOMA_MAX_MESSAGE_LENGTH}

\* rtt_bytes, grant_increment and the data bytes of one packet.
GrantConfigs ==
    {c \in [rtt : RttChoices, inc : 1..3, pkt : 1..2] : c.pkt <= c.inc}
        \cup {[rtt |-> ScenarioRtt, inc |-> ScenarioRtt, pkt |-> ScenarioRtt]}

MessageLengths(rtt) ==
    IF rtt = ScenarioRtt THEN ScenarioLengths ELSE 1..(2 * MaxLen)

\* One GRANT hands out the whole message.
GrantAdvance_all(incoming, inc, length) == length

\* "advancing incoming by grant_increment, capped at L".
GrantAdvance(incoming, inc, length) == Min(incoming + inc, length)

\* The grant policy, run on every message progress event.
Granted(m) ==
    IF /\ m.bytes_remaining > 0
       /\ m.incoming < m.length
       /\ m.incoming - (m.length - m.bytes_remaining) < rtt_bytes
    THEN [m EXCEPT !.incoming = GrantAdvance(m.incoming, m.grant_increment,
                                             m.length),
                   !.grants = Append(@, GrantAdvance(m.incoming,
                                         m.grant_increment, m.length))]
    ELSE m

Receiving ==
    /\ sent' = <<>>
    /\ UNCHANGED <<msgout, state, lock, throttled_rpcs, throttled_links,
                   refs, gro, ctl,
                   link_idle_time, pacer_active, now, pc, iter, cur, env,
                   throttle_lock, task_state, nic_call, charged>>

\* The first DATA packet of a message of the given length arrives; its
\* header announces min(rtt_bytes, length) unscheduled bytes.
NewMessage(length, inc, pkt) ==
    /\ msgin = NoMessageIn
    /\ msgin' = Granted([length |-> length,
                         incoming |-> Min(rtt_bytes, length),
                         bytes_remaining |-> length - Min(pkt, length),
                         grant_increment |-> inc,
                         pkt |-> pkt,
                         grants |-> <<>>])
    /\ call' = [fn |-> "new_message"]
    /\ Receiving

\* The next DATA packet arrives; the sender had it granted.
DataArrives ==
    LET received == msgin.length - msgin.bytes_remaining
        n == Min(msgin.pkt, msgin.bytes_remaining)
    IN  /\ msgin # NoMessageIn
        /\ msgin.bytes_remaining > 0
        /\ received + n <= msgin.incoming
        /\ msgin' = Granted([msgin EXCEPT !.bytes_remaining = @ - n])
        /\ call' = [fn |-> "add_packet"]
        /\ Receiving

InitGrants ==
    /\ Quiet
    /\ slots = {}
    /\ is_client = [r \in Rpcs |-> TRUE]
    /\ rtt_bytes \in {c.rtt : c \in GrantConfigs}
    /\ dont_throttle = FALSE
    /\ alloc_fail = FALSE
    /\ xmit_fail = FALSE
    /\ max_gro_skbs = MaxGro
    /\ max_nic_queue_cycles = 0
    /\ dev_gso_max_size = gso_max_size
    /\ max_sched_prio = 0

NextGrants ==
    \/ \E c \in GrantConfigs, length \in MessageLengths(rtt_bytes) :
           c.rtt = rtt_bytes /\ NewMessage(length, c.inc, c.pkt)
    \/ DataArrives

SpecGrants == InitGrants /\ [][NextGrants]_vars

(***************************************************************************)
(* A sender whose NIC queue is never over the cap: one RPC of either role, *)
(* a device that takes one or two segments per buffer, and GRANTs that     *)
(* carry either of two scheduled priorities.                               *)
(***************************************************************************)
\* A cap no queue of the model reaches.
NeverOverCap == 1000

InitGso ==
    /\ Quiet
    /\ slots = {1}
    /\ is_client \in [Rpcs -> BOOLEAN]
    /\ \A r \in Rpcs \ {1} : is_client[r]
    /\ rtt_bytes \in RttChoices
    /\ dont_throttle = FALSE
    /\ alloc_fail = FALSE
    /\ xmit_fail = FALSE
    /\ max_gro_skbs = MaxGro
    /\ max_nic_queue_cycles = NeverOverCap
    /\ dev_gso_max_size \in DeviceChoices
    /\ max_sched_prio = 1

NextGso ==
    \/ Tick
    \/ \E t \in Threads, r \in Rpcs, len \in 1..MaxLen : Send(t, r, len)
    \/ \E t \in Threads, r \in Rpcs, offset \in 1..MaxLen,
           priority \in 0..max_sched_prio : Grant(t, r, offset, priority)
    \/ \E t \in Threads : Unlock(t)

SpecGso == InitGso /\ [][NextGso]_vars

(***************************************************************************)
(* Properties of the outbound frontiers, the throttled list and the pacer. *)
(***************************************************************************)
InUse(r) == msgout[r].length >= 0

Remaining(m) == m.length - NextOffset(m)

InLoop(t) == pc[t] \in {"loop", "take", "xmit", "unlink", "done"}

\* C1: for every outbound message 0 <= next <= granted, next being the
\* offset of next_packet or the length when next_packet is NULL; so no
\* buffer handed to the substrate carries a byte at or beyond granted.
C1_NextWithinGranted ==
    /\ \A r \in Rpcs :
           InUse(r) => /\ 0 <= NextOffset(msgout[r])
                       /\ NextOffset(msgout[r]) <= msgout[r].granted
    /\ \A i \in 1..Len(sent) : sent[i].end <= sent[i].granted

\* C2: at most one thread is in the transmit loop of homa_pacer_xmit, and
\* a caller that finds pacer_active already 1 returns without transmitting
\* anything and without touching the throttled list.
C2_OnePacerAtATime ==
    /\ [](Cardinality({t \in Threads : InLoop(t)}) <= 1)
    /\ [][\A t \in Threads :
              (pc[t] = "pacer_xmit" /\ pacer_active = 1
                  /\ pc'[t] # "pacer_xmit")
              => /\ pc'[t] = "idle"
                 /\ sent' = <<>>
                 /\ UNCHANGED <<throttled_rpcs, msgout, link_idle_time,
                                pacer_active>>]_vars

\* A caller has just found pacer_active set by the thread in the loop.
C2_Witness ==
    /\ call.fn = "atomic_cmpxchg"
    /\ call.old = 1
    /\ pc[call.thread] = "idle"
    /\ \E u \in Threads \ {call.thread} : InLoop(u)

\* C3: the throttled list is sorted by remaining bytes, ascending.
C3_ThrottledSorted ==
    \A i, j \in 1..Len(throttled_rpcs) :
        i < j => Remaining(msgout[throttled_rpcs[i]])
                     <= Remaining(msgout[throttled_rpcs[j]])

\* C4: every RPC in the throttled list has granted data still unsent: its
\* next_packet is not NULL and the offset of next_packet is < granted.
C4_ThrottledHaveGrantedData ==
    \A i \in 1..Len(throttled_rpcs) :
        LET m == msgout[throttled_rpcs[i]]
        IN  /\ m.next_packet # NULL
            /\ NextOffset(m) < m.granted

\* B has granted bytes that are not yet transmitted.
HasGrantedData(m) == m.next_packet # NULL /\ NextOffset(m) < m.granted

\* C5: the pacer transmits no buffer of an RPC A while the throttled list
\* holds an RPC B with fewer remaining bytes than A and granted data to
\* send.  Only the RPCs queued behind A are looked at: they were in the list
\* when the pacer took A from its head, whereas one inserted since stands in
\* front of A.
C5_PacerDrainsShortestFirst ==
    [][\A t \in Threads :
          (pc[t] = "xmit" /\ pc'[t] = "unlink" /\ sent' # <<>>)
          => \A i, j \in 1..Len(throttled_rpcs) :
                 (/\ throttled_rpcs[i] = cur[t]
                  /\ i < j
                  /\ HasGrantedData(msgout[throttled_rpcs[j]]))
                 => Remaining(msgout[throttled_rpcs[j]])
                        >= Remaining(msgout[cur[t]])]_vars

\* C6 as claimed: no operation, homa_message_out_reset included, lowers
\* granted.
C6_GrantedNeverLowered ==
    (call.fn \in {"grant", "homa_message_out_reset"})
        => msgout[call.rpc].granted >= call.granted

\* C6: granted is lowered by no operation but homa_message_out_reset, which
\* sets it back to min(unscheduled, length).
C6_GrantedLoweredOnlyByReset ==
    [][\A r \in Rpcs :
          (InUse(r) /\ msgout'[r].granted < msgout[r].granted)
          => /\ call'.fn = "homa_message_out_reset"
             /\ call'.rpc = r
             /\ msgout'[r].granted
                    = Min(msgout[r].unscheduled, msgout[r].length)]_vars

\* A reset has lowered a granted offset that grants had raised.
C6_Witness ==
    /\ call.fn = "homa_message_out_reset"
    /\ msgout[call.rpc].granted < call.granted

\* C7 as claimed: unscheduled <= length for every outbound message.
C7_UnscheduledWithinLength ==
    \A r \in Rpcs : InUse(r) => msgout[r].unscheduled <= msgout[r].length

\* C7: unscheduled is rtt_bytes whatever the length, so it is within the
\* length exactly for the messages of at least rtt_bytes bytes.
C7_UnscheduledIsRttBytes ==
    \A r \in Rpcs :
        InUse(r) => /\ msgout[r].unscheduled = rtt_bytes
                    /\ (msgout[r].unscheduled <= msgout[r].length)
                           <=> (msgout[r].length >= rtt_bytes)

\* A message shorter than rtt_bytes.
C7_Witness ==
    \E r \in Rpcs : InUse(r) /\ msgout[r].length < rtt_bytes
                             /\ msgout[r].unscheduled > msgout[r].length

\* C8: granted starts at min(unscheduled, length), after init and after
\* every reset, and granted <= length always.
C8_GrantedWithinLength ==
    \A r \in Rpcs :
        InUse(r) =>
            /\ msgout[r].granted <= msgout[r].length
            /\ (call.fn \in {"homa_message_out_init", "homa_message_out_reset"}
                    /\ call.rpc = r)
               => msgout[r].granted
                      = Min(msgout[r].unscheduled, msgout[r].length)

\* A reset of a message shorter than its unscheduled bytes, after which
\* granted is the length.
C8_Witness ==
    /\ call.fn = "homa_message_out_reset"
    /\ msgout[call.rpc].unscheduled > msgout[call.rpc].length
    /\ msgout[call.rpc].granted = msgout[call.rpc].length

\* C9 as claimed: whatever the configuration, homa_check_nic_queue returns 0
\* and leaves link_idle_time alone exactly when now + max_nic_queue_cycles
\* < link_idle and force is false, and otherwise returns nonzero and sets
\* link_idle_time to max(link_idle, now) + cost.
C9_RefusesExactlyOverCapUnforced ==
    (call.fn = "homa_check_nic_queue") =>
        IF (call.clock + max_nic_queue_cycles < call.idle) /\ ~call.force
        THEN call.ret = 0 /\ link_idle_time = call.idle
        ELSE /\ call.ret # 0
             /\ link_idle_time = Max(call.idle, call.clock) + call.cost

\* C9: the same with the refusal further conditioned on
\* HOMA_FLAG_DONT_THROTTLE being clear.
C9_RefusesUnlessDontThrottle ==
    (call.fn = "homa_check_nic_queue") =>
        IF /\ call.clock + max_nic_queue_cycles < call.idle
           /\ ~call.force
           /\ ~dont_throttle
        THEN call.ret = 0 /\ link_idle_time = call.idle
        ELSE /\ call.ret # 0
             /\ link_idle_time = Max(call.idle, call.clock) + call.cost

\* An unforced call over the queue limit is permitted because
\* HOMA_FLAG_DONT_THROTTLE is set.
C9_Witness ==
    /\ call.fn = "homa_check_nic_queue"
    /\ call.clock + max_nic_queue_cycles < call.idle
    /\ ~call.force
    /\ dont_throttle
    /\ call.ret # 0
    /\ link_idle_time = call.idle + call.cost

\* C10: a length of 0 or above HOMA_MAX_MESSAGE_LENGTH fails with -EINVAL
\* and no buffer; a length of 1..HOMA_MAX_MESSAGE_LENGTH passes the length
\* check.
C10_LengthCheck ==
    (call.fn = "homa_fill_packets") =>
        IF call.len = 0 \/ call.len > HOMA_MAX_MESSAGE_LENGTH
        THEN call.err = -EINVAL /\ call.buffers = 0
        ELSE call.err # -EINVAL

\* The longest permitted message has been accepted and packetised.
C10_Witness ==
    /\ call.fn = "homa_fill_packets"
    /\ call.len = HOMA_MAX_MESSAGE_LENGTH
    /\ call.err = 0
    /\ call.buffers > 0

\* C11: the chain built by homa_fill_packets for an accepted length
\* partitions the message: the segments, in chain order, start at offset 0,
\* each starts where the previous one ended (so none overlaps another),
\* each carries at most max_pkt_data bytes, each buffer carries at most
\* max_gso_data bytes, and the segment lengths sum to the length.
C11_ChainPartitionsMessage ==
    (call.fn = "homa_fill_packets" /\ call.err = 0) =>
        LET lay == FillLayout(call.len, call.mtu, call.gso, rtt_bytes)
            segs == Segments(call.packets)
        IN  /\ segs # <<>>
            /\ segs[1].offset = 0
            /\ \A i \in 1..(Len(segs) - 1) :
                   segs[i + 1].offset = segs[i].offset + segs[i].length
            /\ \A i \in 1..Len(segs) :
                   /\ segs[i].length >= 1
                   /\ segs[i].length <= lay.max_pkt_data
            /\ \A b \in 1..Len(call.packets) :
                   BufferBytes(call.packets[b]) <= lay.max_gso_data
            /\ SumLengths(segs) = call.len

\* A message filled into several buffers, one of them with several
\* segments.
C11_Witness ==
    /\ call.fn = "homa_fill_packets"
    /\ call.err = 0
    /\ Len(call.packets) >= 2
    /\ \E b \in 1..Len(call.packets) : Len(call.packets[b].segs) >= 2

(***************************************************************************)
(* Properties of homa_resend_data.                                         *)
(***************************************************************************)
\* Segment s overlaps the half-open range [start, end).
Overlaps(s, start, end) == s.offset < end /\ s.offset + s.length > start

\* The segments of the last homa_resend_data call that overlap its range,
\* and those of them whose copy could be allocated, in chain order.
Requested ==
    LET segs == Segments(call.packets)
    IN  {i \in 1..Len(segs) : Overlaps(segs[i], call.start, call.end)}

RECURSIVE Pick(_, _, _)
Pick(segs, keep, i) ==
    IF i > Len(segs) THEN <<>>
    ELSE (IF i \in keep THEN <<segs[i]>> ELSE <<>>) \o Pick(segs, keep, i + 1)

Copied == {i \in Requested : call.alloc_ok[i]}

RECURSIVE SumCosts(_)
SumCosts(out) ==
    IF out = <<>> THEN 0
    ELSE cycles_for_packet(Head(out).skb) + SumCosts(Tail(out))

MetricTotal(m) == m.resent_packets + m.packets_sent + m.data_xmit_errors

\* C12: homa_resend_data retransmits exactly the segments that overlap
\* [start, end), in order, each as a freshly allocated packet with that one
\* segment; no buffer of the message's chain is handed over again, and the
\* chain stays as it was.
C12_ResendsOverlappingSegments ==
    (call.fn = "homa_resend_data" /\ Copied = Requested) =>
        LET want == Pick(Segments(call.packets), Requested, 1)
        IN  /\ Len(sent) = Len(want)
            /\ \A i \in 1..Len(sent) :
                   /\ sent[i].skb.segs = <<want[i]>>
                   /\ sent[i].index = NULL
            /\ msgout[call.rpc].packets = call.packets

\* A range that leaves out a segment before it and takes the next one.
C12_Witness ==
    /\ call.fn = "homa_resend_data"
    /\ Copied = Requested
    /\ sent # <<>>
    /\ call.start > 0
    /\ sent[1].offset > 0
    /\ sent[1].offset < call.start

\* C13: every packet homa_resend_data emits for a segment carries
\* retransmit = 1 and incoming = max(offset + length, end of the range);
\* the buffers of the message keep retransmit = 0.
C13_ResentHeaders ==
    (call.fn = "homa_resend_data") =>
        /\ \A i \in 1..Len(sent) :
               /\ sent[i].skb.retransmit = 1
               /\ sent[i].skb.incoming = Max(sent[i].end, call.end)
        /\ \A b \in 1..Len(msgout[call.rpc].packets) :
               msgout[call.rpc].packets[b].retransmit = 0

\* A retransmitted segment ends beyond the requested range, another within.
C13_Witness ==
    /\ call.fn = "homa_resend_data"
    /\ \E i \in 1..Len(sent) : /\ sent[i].end > call.end
                                /\ sent[i].skb.incoming = sent[i].end
                                /\ sent[i].skb.retransmit = 1
    /\ \E i \in 1..Len(sent) : sent[i].end < call.end

\* C14: homa_resend_data hands over every segment it selected even when
\* the NIC queue is over its limit, leaves the throttled list alone, and
\* adds the cost of each retransmitted packet to link_idle_time.
C14_ResendNotThrottled ==
    (call.fn = "homa_resend_data") =>
        /\ Len(sent) = Cardinality(Copied)
        /\ throttled_rpcs = call.throttled
        /\ link_idle_time = IF sent = <<>> THEN call.idle
                            ELSE Max(call.idle, call.clock) + SumCosts(sent)

\* Segments are retransmitted while the NIC queue is over its limit, for an
\* RPC that is not in the throttled list.
C14_Witness ==
    /\ call.fn = "homa_resend_data"
    /\ call.clock + max_nic_queue_cycles < call.idle
    /\ Len(sent) >= 2
    /\ ~InList(call.rpc)
    /\ link_idle_time = call.idle + SumCosts(sent)

Intact(m) == SumLengths(Segments(m.packets)) = m.length

C17_ResetPreservesData ==
    (call.fn = "homa_message_out_reset") =>
        /\ Segments(call.after.packets) = Segments(call.before.packets)
        /\ call.after.num_skbs = Len(call.after.packets)

(***************************************************************************)
(* Properties of homa_xmit_data.                                           *)
(***************************************************************************)
\* C18: a message of 1 <= length <= rtt_bytes is fully unscheduled: after
\* homa_message_out_init granted is the length, and with a NIC queue that
\* is never over the cap the homa_xmit_data of the send hands over every
\* buffer of the chain, in order, with no GRANT involved; a message of one
\* byte goes out as one buffer holding one segment of one byte.
C18_FullyUnscheduled ==
    \A r \in Rpcs :
        (/\ call.fn = "homa_message_out_init"
         /\ call.rpc = r
         /\ msgout[r].length <= rtt_bytes) =>
            LET m == msgout[r]
            IN  /\ m.granted = m.length
                /\ m.next_packet = NULL
                /\ Len(sent) = Len(m.packets)
                /\ \A i \in 1..Len(sent) :
                       /\ sent[i].index = i
                       /\ sent[i].skb = m.packets[i]
                       /\ sent[i].granted = m.length
                /\ SumLengths(Segments(m.packets)) = m.length
                /\ m.length = 1 =>
                       /\ Len(sent) = 1
                       /\ Len(sent[1].skb.segs) = 1
                       /\ sent[1].skb.segs[1].length = 1

\* A message of exactly rtt_bytes that takes two buffers is sent whole.
C18_Witness ==
    /\ call.fn = "homa_message_out_init"
    /\ msgout[call.rpc].length = rtt_bytes
    /\ Len(msgout[call.rpc].packets) = 2
    /\ Len(sent) = 2

\* C19: every segment of every buffer transmitted by homa_xmit_data goes
\* out at the unscheduled-cutoff priority of the message if its offset is
\* below msgout.unscheduled, and at msgout.sched_priority otherwise.
C19_SegmentPriority ==
    \A i \in 1..Len(sent) :
        sent[i].index # NULL =>
            LET m == msgout[sent[i].rpc]
                segs == sent[i].skb.segs
            IN  \A k \in 1..Len(segs) :
                    sent[i].priority =
                        IF segs[k].offset < m.unscheduled
                        THEN homa_unsched_priority(m.length)
                        ELSE m.sched_priority

(***************************************************************************)
(* Properties of homa_pacer_xmit.                                          *)
(***************************************************************************)
\* C20: the homa_xmit_data call of one iteration of the loop of
\* homa_pacer_xmit hands over exactly one buffer (so that the five
\* iterations of one invocation hand over at most five).
C20_OneBufferPerIteration ==
    (call.fn = "homa_pacer_xmit") => Len(sent) = 1

(***************************************************************************)
(* Properties of the throttling decision of homa_xmit_data.                *)
(***************************************************************************)
\* The functions whose call ran homa_xmit_data on call.rpc.
XmitCalls == {"homa_message_out_init", "grant", "homa_message_out_reset",
              "homa_pacer_xmit"}

\* link_idle_time after the buffers of out went out at time clock, when
\* only the buffers with at least throttle_min_bytes left are charged.
RECURSIVE Charged(_, _, _, _)
Charged(out, length, idle, clock) ==
    IF out = <<>> THEN idle
    ELSE Charged(Tail(out), length,
             IF length - Head(out).offset < throttle_min_bytes THEN idle
             ELSE Max(idle, clock) + cycles_for_packet(Head(out).skb),
             clock)

\* C22: homa_xmit_data links the RPC into the throttled list only when its
\* next buffer is below granted, at least throttle_min_bytes of the message
\* remain from it, the buffer is not the forced one and the NIC queue is
\* over the cap; whenever it returns with a buffer below granted unsent it
\* has parked the RPC for that reason; and link_idle_time is charged for
\* exactly the transmitted buffers that had at least throttle_min_bytes
\* left.
C22_ParkedOnlyUnderBackpressure ==
    [][\A r \in Rpcs :
          (call'.fn \in XmitCalls /\ call'.rpc = r) =>
              LET m == msgout'[r]
                  refused == /\ HasGrantedData(m)
                             /\ Remaining(m) >= throttle_min_bytes
                             /\ (now + max_nic_queue_cycles) < link_idle_time'
                             /\ ~dont_throttle
                             /\ call'.fn = "homa_pacer_xmit" => sent' # <<>>
              IN  /\ (InList(r)'
                          /\ ~InList(r)) => refused
                  /\ HasGrantedData(m) =>
                         (InList(r)' /\ refused)
                  /\ link_idle_time' =
                         Charged(sent', m.length, link_idle_time, now)]_vars

\* A send that transmitted one buffer and parked the RPC for the next.
C22_Witness ==
    /\ call.fn = "homa_message_out_init"
    /\ InList(call.rpc)
    /\ Len(sent) = 1
    /\ HasGrantedData(msgout[call.rpc])

\* C23: when the pacer releases the lock of an RPC whose last buffer has
\* been handed over (next_packet is NULL), the RPC is no longer in the
\* throttled list; a server RPC has been freed (state DEAD) by then, a
\* client RPC keeps its state.
C23_PacerFreesFinishedServer ==
    [][\A t \in Threads, r \in Rpcs :
          (/\ pc[t] = "unlink"
           /\ cur[t] = r
           /\ lock[r] = t
           /\ lock'[r] # t
           /\ msgout[r].next_packet = NULL) =>
              /\ ~InList(r)'
              /\ IF is_client[r]
                 THEN state'[r] = "OUTGOING" /\ state[r] = "OUTGOING"
                 ELSE state'[r] = "DEAD"]_vars

\* The pacer has just handed over the last buffer of a server's response
\* and still holds the RPC's lock.
C23_Witness ==
    /\ call.fn = "homa_pacer_xmit"
    /\ sent # <<>>
    /\ pc["pacer"] = "unlink"
    /\ ~is_client[call.rpc]
    /\ state[call.rpc] = "OUTGOING"
    /\ InList(call.rpc)
    /\ msgout[call.rpc].next_packet = NULL

\* C30: a thread that leaves homa_pacer_xmit after it set pacer_active
\* leaves it cleared, whichever way it left the loop, so the flag is set
\* only while some thread is inside the loop.
C30_PacerFlagNotLeaked ==
    /\ []((\A t \in Threads : ~InLoop(t)) => pacer_active = 0)
    /\ [][\A t \in Threads :
              (InLoop(t) /\ ~InLoop(t)') =>
                  (pacer_active = 1 /\ pacer_active' = 0)]_vars

\* The pacer thread found the lock of the head RPC held by another thread,
\* left the loop before its last iteration and is at the label done.
C30_Witness ==
    /\ pacer_active = 1
    /\ pc["pacer"] = "done"
    /\ iter["pacer"] < PACER_MAX_ITERATIONS
    /\ ~OverCap
    /\ throttled_rpcs # <<>>
    /\ lock[Head(throttled_rpcs)] = "other"

(***************************************************************************)
(* Properties of the RPC state machine.                                    *)
(***************************************************************************)
\* The position of a state on the path of its role.
Rank(client, st) ==
    IF st = "NONE" THEN 0
    ELSE IF client
    THEN CASE st = "OUTGOING" -> 1 [] st = "INCOMING" -> 2
           [] st = "READY" -> 3 [] st = "DEAD" -> 4
    ELSE CASE st = "INCOMING" -> 1 [] st = "READY" -> 2
           [] st = "IN_SERVICE" -> 3 [] st = "OUTGOING" -> 4
           [] st = "DEAD" -> 5

CeilDiv(x, d) == (x + d - 1) \div d

Complete(m) == m # NoMessageIn /\ m.bytes_remaining = 0

\* The GRANTs of the large-message scenario: 20000, 30000, ..., 100000.
ScenarioGrants == [k \in 1..9 |-> (k + 1) * ScenarioRtt]

C26_NoCostLost ==
    /\ [][link_idle_time' >= link_idle_time]_vars
    /\ [](link_idle_time >= charged)
    /\ []((call.fn = "homa_check_nic_queue" /\ call.ret = 1 /\ ~call.force)
             => call.clock + max_nic_queue_cycles >= call.idle)

\* C26: link_idle_time never decreases, it is at least its initial value
\* (0) plus the cost of every permitted call, and an unforced call is
\* permitted only if HOMA_FLAG_DONT_THROTTLE is set or
\* now + max_nic_queue_cycles >= the link_idle_time its compare-and-swap
\* replaced.
C26_NoCostLostUnlessDontThrottle ==
    /\ [][link_idle_time' >= link_idle_time]_vars
    /\ [](link_idle_time >= charged)
    /\ []((call.fn = "homa_check_nic_queue" /\ call.ret = 1 /\ ~call.force)
             => (dont_throttle
                    \/ call.clock + max_nic_queue_cycles >= call.idle))

\* A call whose first compare-and-swap lost against another thread has
\* been permitted on its second pass.
C26_Witness ==
    /\ call.fn = "homa_check_nic_queue"
    /\ call.ret = 1
    /\ call.retried
    /\ charged > call.cost
    /\ link_idle_time >= charged


\* A thread that holds the throttle lock takes the lock of RPC r.
TakesUnderThrottle(t, r) ==
    /\ throttle_lock = t
    /\ lock[r] # t
    /\ lock'[r] = t

\* C21: no thread acquires the lock of an RPC while it holds the
\* throttle-list lock, neither the pacer taking the first throttled RPC nor
\* a sender in homa_add_to_throttled.
C21_NoRpcLockUnderThrottleLock ==
    [][\A t \in Threads, r \in Rpcs : ~TakesUnderThrottle(t, r)]_vars

\* C21, amended: the only acquisition of an RPC lock under the throttle lock
\* is the pacer's spin_trylock_bh of the first throttled RPC, which finds
\* the lock free and is followed at once by the release of the throttle
\* lock; a sender in homa_add_to_throttled holds the throttle lock only
\* while it already holds the lock of its RPC.
C21_OnlyTrylockUnderThrottleLock ==
    /\ [][\A t \in Threads, r \in Rpcs :
            TakesUnderThrottle(t, r) =>
                /\ pc[t] = "first"
                /\ throttled_rpcs # <<>>
                /\ r = Head(throttled_rpcs)
                /\ lock[r] = NoThread
                /\ throttle_lock' = NoThread]_vars
    /\ [](\A t \in Threads :
            (throttle_lock = t /\ pc[t] = "add_insert") => lock[cur[t]] = t)

\* The pacer has just taken the lock of the first throttled RPC by its
\* trylock, with the throttle lock held until then.
C21_Witness ==
    /\ call.fn = "spin_trylock_bh"
    /\ ~call.failed
    /\ pc["pacer"] = "xmit"
    /\ lock[call.rpc] = "pacer"
    /\ throttle_lock = NoThread

\* What the holder of the throttle lock does next.
ThrottleHolderStep(t) == PacerTrylock(t) \/ AddInsert(t)

\* Thread t waits for the throttle lock.
WantsThrottleLock(t) == pc[t] \in {"add_lock", "free_lock", "take"}

\* C27: the pacer and a sender never deadlock on the throttle lock and an
\* RPC lock: the holder of the throttle lock can always take its next step,
\* and when the lock of the first throttled RPC is held by someone else the
\* pacer releases the throttle lock and leaves the invocation without
\* taking any RPC lock.
C27_NoDeadlock ==
    /\ [](\A t \in Threads : throttle_lock = t => ENABLED ThrottleHolderStep(t))
    /\ [][\A t \in Threads :
            (/\ pc[t] = "first"
             /\ pc'[t] # "first"
             /\ throttled_rpcs # <<>>
             /\ lock[Head(throttled_rpcs)] # NoThread) =>
                /\ throttle_lock' = NoThread
                /\ pc'[t] = "done"
                /\ lock' = lock]_vars

\* The pacer has given up on a first RPC whose lock is held by a sender that
\* is itself waiting for the throttle lock.
C27_Witness ==
    /\ call.fn = "spin_trylock_bh"
    /\ call.failed
    /\ pc["pacer"] = "done"
    /\ throttle_lock = NoThread
    /\ lock[call.rpc] = "other"
    /\ WantsThrottleLock("other")

\* A sender has linked an RPC and has not yet called wake_up_process.
WakeupPending == \E t \in Threads : pc[t] = "add_wake"

\* The pacer thread is in schedule() and not runnable.
Sleeping == pc["pacer"] = "schedule" /\ task_state = "INTERRUPTIBLE"

\* C28: the pacer thread is never left sleeping, in schedule() in the
\* interruptible state with no wake-up pending, while the throttled list is
\* not empty.
C28_NoLostWakeup ==
    (Sleeping /\ throttled_rpcs # <<>>) => WakeupPending

\* The pacer thread, which found the list empty and went to sleep, has been
\* made runnable by a sender that linked an RPC.
C28_Witness ==
    /\ pc["pacer"] = "schedule"
    /\ task_state = "RUNNING"
    /\ throttled_rpcs # <<>>
    /\ pc["other"] = "locked"
    /\ ~WakeupPending
    /\ pacer_active = 0


(***************************************************************************)
(* Draining of the throttled list.  The steps a thread takes inside        *)
(* homa_pacer_main and homa_pacer_xmit are taken sooner or later once they *)
(* can be taken, a handler that has locked an RPC unlocks it, and the      *)
(* clock runs as far as the bound.                                         *)
(***************************************************************************)
PacerStep(t) ==
    \/ PacerMain(t)
    \/ PacerCmpxchg(t)
    \/ PacerWait(t)
    \/ PacerTake(t)
    \/ PacerXmit(t)
    \/ PacerUnlink(t)
    \/ PacerDone(t)

\* spin_trylock_bh in homa_pacer_xmit finds the lock free.
TakeSucceeds(t) == PacerTake(t) /\ pc'[t] = "xmit"

Fairness ==
    /\ WF_vars(Tick)
    /\ \A t \in Threads : WF_vars(Unlock(t))
    /\ \A t \in Threads : WF_vars(PacerStep(t))

SpecDrain == InitOne /\ [][Next]_vars /\ Fairness

\* No RPC is linked into the throttled list by this step.
NoAdd == \A r \in Rpcs : InList(r)' => InList(r)

SomeTakeSucceeds == \E t \in Threads : TakeSucceeds(t)

TimesLinked(r) ==
    Cardinality({i \in 1..Len(throttled_rpcs) : throttled_rpcs[i] = r})

\* C31: an RPC is linked into the throttled list at most once, and its
\* throttled_links is an empty list pointing to itself exactly when the RPC
\* is not in the list.
C31_LinkedAtMostOnce ==
    \A r \in Rpcs :
        /\ TimesLinked(r) <= 1
        /\ throttled_links[r] <=> InList(r)

\* A sender found its RPC, which the pacer had unlinked before, not linked
\* and has linked it again.
C31_Witness ==
    /\ call.fn = "homa_add_to_throttled"
    /\ TimesLinked(call.rpc) = 1
    /\ msgout[call.rpc].next_packet > 1
    /\ \E t \in Threads : pc[t] = "add_wake" /\ cur[t] = call.rpc


\* The place of next_packet in the chain; past the end when it is NULL.
Pos(m) == IF m.next_packet = NULL THEN Len(m.packets) + 1 ELSE m.next_packet

\* What the last step handed over for RPC r.
SentFor(out, r) == SelectSeq(out, LAMBDA rec : rec.rpc = r)

\* The step (re)initialised the message of RPC r.
Reinitialised(c, r) ==
    /\ c.fn \in {"homa_message_out_init", "homa_message_out_reset"}
    /\ c.rpc = r

\* C32: between an init or reset of a message and the next reset,
\* homa_xmit_data, called by senders and by the pacer, hands the buffers over
\* in strictly increasing offset order, each at most once, and skips none: a
\* step hands over the buffers from next_packet up to the new next_packet,
\* and a buffer that was refused is still the next_packet.
C32_InOrderOnce ==
    /\ [](\A r \in Rpcs : \A i \in 1..(Len(msgout[r].packets) - 1) :
             homa_data_offset(msgout[r].packets[i])
                 < homa_data_offset(msgout[r].packets[i + 1]))
    /\ [][\A r \in Rpcs :
             LET start == IF Reinitialised(call', r) THEN 1
                          ELSE Pos(msgout[r])
                 out == SentFor(sent', r)
             IN  /\ Pos(msgout'[r]) = start + Len(out)
                 /\ \A i \in 1..Len(out) :
                        /\ out[i].index = start + i - 1
                        /\ out[i].offset = homa_data_offset(
                               msgout'[r].packets[out[i].index])
                 /\ Reinitialised(call', r)
                        \/ msgout'[r].packets = msgout[r].packets]_vars

\* The pacer hands over buffers of a message whose first buffers a sender
\* handed over before.
C32_Witness ==
    /\ call.fn = "homa_pacer_xmit"
    /\ sent # <<>>
    /\ sent[1].index > 1
    /\ sent[1].pacer


\* C33: homa_resend_data leaves the send state of the message as it was:
\* next_packet, granted, unscheduled, the buffer chain and the membership of
\* the RPC in the throttled list are the same after the call as before, for
\* every range.
C33_ResendLeavesSendState ==
    [][\A r \in Rpcs :
           (call'.fn = "homa_resend_data" /\ call'.rpc = r) =>
               /\ msgout'[r].next_packet = msgout[r].next_packet
               /\ msgout'[r].granted = msgout[r].granted
               /\ msgout'[r].unscheduled = msgout[r].unscheduled
               /\ msgout'[r].packets = msgout[r].packets
               /\ InList(r)' <=> InList(r)
               /\ throttled_links'[r] = throttled_links[r]]_vars

\* Segments of a message that has buffers left to send were retransmitted
\* while the NIC queue was over the cap.
C33_Witness ==
    /\ call.fn = "homa_resend_data"
    /\ sent # <<>>
    /\ msgout[call.rpc].next_packet # NULL
    /\ call.clock + max_nic_queue_cycles < call.idle
    /\ ~InList(call.rpc)


\* The end offset of the last buffer of m whose first offset is below
\* granted: the bytes m may send without a further GRANT.
Frontier(m) ==
    LET ends == {homa_data_offset(m.packets[i]) + BufferBytes(m.packets[i]) :
                    i \in {j \in 1..Len(m.packets) :
                              homa_data_offset(m.packets[j]) < m.granted}}
    IN  IF ends = {} THEN 0 ELSE CHOOSE e \in ends : \A f \in ends : f <= e

\* C34: for every DATA buffer that homa_xmit_data transmits, the `incoming`
\* value of the buffer is at most the end offset of the last buffer whose
\* first offset is below granted.
C34_IncomingWithinFrontier ==
    \A i \in 1..Len(sent) :
        (call.fn \in XmitCalls) =>
            sent[i].skb.incoming <= Frontier(msgout[sent[i].rpc])


\* C35: the `incoming` field of every DATA packet handed over, original or
\* retransmitted, is at most the length of the message, also when the range
\* of the RESEND reaches beyond the end of the message.
C35_IncomingWithinLength ==
    \A i \in 1..Len(sent) :
        sent[i].skb.incoming <= msgout[sent[i].rpc].length


\* x rounded up to a whole number of units.
RoundedUp(x, unit) ==
    CHOOSE y \in x..(x + unit - 1) : y % unit = 0

\* The offload unit of a message of the given length: the data one buffer
\* can hold.
GsoUnit(len) ==
    FillLayout(len, mtu, dev_gso_max_size, rtt_bytes).max_gso_data

\* C36: the unscheduled byte count that homa_message_out_init sets is
\* rtt_bytes rounded up to a whole number of offload units and clamped to L,
\* the value homa_fill_packets wrote into the `incoming` field of the first
\* DATA buffer.
C36_UnscheduledAsPacketized ==
    (call.fn = "homa_message_out_init") =>
        LET m == msgout[call.rpc]
        IN  /\ m.unscheduled = Min(RoundedUp(rtt_bytes, GsoUnit(m.length)),
                                   m.length)
            /\ m.unscheduled = m.packets[1].incoming

\* C36, amended: homa_message_out_init sets unscheduled to rtt_bytes itself,
\* neither rounded nor clamped, while the `incoming` field of the first DATA
\* buffer is rtt_bytes rounded up to a whole number of offload units and
\* clamped to L; the bytes the sender may send at once, granted =
\* min(unscheduled, L), never exceed that value.
C36_UnscheduledIsRttBytesNotPacketized ==
    (call.fn = "homa_message_out_init") =>
        LET m == msgout[call.rpc]
        IN  /\ m.unscheduled = rtt_bytes
            /\ m.packets[1].incoming =
                   Min(RoundedUp(rtt_bytes, GsoUnit(m.length)), m.length)
            /\ Min(m.unscheduled, m.length) <= m.packets[1].incoming

\* A message longer than rtt_bytes whose buffers hold more than one
\* segment: the two values differ.
C36_Witness ==
    /\ call.fn = "homa_message_out_init"
    /\ msgout[call.rpc].length > rtt_bytes
    /\ Len(msgout[call.rpc].packets[1].segs) > 1
    /\ msgout[call.rpc].unscheduled < msgout[call.rpc].packets[1].incoming


(***************************************************************************)
(* The ownership of transmit buffers: the senders and the pacer, with      *)
(* ip_queue_xmit reporting errors, the packets leaving the host and the    *)
(* messages of dead RPCs being destroyed.                                  *)
(***************************************************************************)
InitOwn ==
    /\ Quiet
    /\ slots = {1}
    /\ is_client \in [Rpcs -> BOOLEAN]
    /\ \A r \in Rpcs \ {1} : is_client[r]
    /\ rtt_bytes \in RttChoices
    /\ dont_throttle = FALSE
    /\ alloc_fail = TRUE
    /\ xmit_fail = TRUE
    /\ max_gro_skbs = MaxGro
    /\ max_nic_queue_cycles = 0
    /\ dev_gso_max_size = gso_max_size
    /\ max_sched_prio = 0

\* A packet that ip_queue_xmit accepted has left the host: the reference
\* that came with it is dropped.
TxDone(r, i) ==
    /\ i \in 1..Len(refs[r])
    /\ refs[r][i].queued > 0
    /\ refs' = [refs EXCEPT ![r][i] = [users |-> @.users - 1,
                                       queued |-> @.queued - 1]]
    /\ sent' = <<>>
    /\ call' = NoCall
    /\ UNCHANGED <<msgout, state, lock, throttled_rpcs, link_idle_time,
                   pacer_active, now, pc, iter, cur, env, sync_state,
                   throttled_links, gro, ctl>>

\* homa_message_out_destroy for the message of a dead RPC.
Destroy(t, r) ==
    /\ t # "pacer"
    /\ pc[t] = "idle"
    /\ state[r] = "DEAD"
    /\ lock[r] = NoThread
    /\ msgout[r].length >= 0
    /\ msgout[r].packets # <<>>
    /\ msgout' = [msgout EXCEPT ![r].packets = <<>>]
    /\ refs' = [refs EXCEPT ![r] = <<>>]
    /\ sent' = <<>>
    /\ call' = [fn |-> "homa_message_out_destroy", rpc |-> r,
                released |-> ReleaseAll(refs[r])]
    /\ UNCHANGED <<state, lock, throttled_rpcs, link_idle_time,
                   pacer_active, now, pc, iter, cur, env, sync_state,
                   throttled_links, gro, ctl>>

NextOwn ==
    \/ Tick
    \/ \E t \in Threads, r \in Rpcs, len \in 1..MaxLen : Send(t, r, len)
    \/ \E t \in Threads, r \in Rpcs, offset \in 1..MaxLen,
           priority \in 0..max_sched_prio : Grant(t, r, offset, priority)
    \/ \E t \in Threads, r \in Rpcs : Restart(t, r)
    \/ \E t \in Threads : Unlock(t)
    \/ \E t \in Threads : CheckPacer(t)
    \/ \E t \in Threads : PacerMain(t)
    \/ \E t \in Threads : PacerCmpxchg(t)
    \/ \E t \in Threads : PacerWait(t)
    \/ \E t \in Threads : PacerTake(t)
    \/ \E t \in Threads : PacerXmit(t)
    \/ \E t \in Threads : PacerUnlink(t)
    \/ \E t \in Threads : PacerDone(t)
    \/ \E r \in Rpcs, i \in 1..MaxLen : TxDone(r, i)
    \/ \E t \in Threads, r \in Rpcs : Destroy(t, r)

SpecOwn == InitOwn /\ [][NextOwn]_vars

\* The message holds a reference of its own to the buffer.
HeldByMessage(b) == b.users = b.queued + 1

\* The step is a homa_message_out_reset or homa_message_out_destroy of r.
Releases(c, r) ==
    /\ c.fn \in {"homa_message_out_reset", "homa_message_out_destroy"}
    /\ c.rpc = r

\* C37: every buffer linked in msgout.packets is referenced by the message,
\* whatever ip_queue_xmit reported for its transmissions, and the message
\* gives up its reference exactly once, when homa_message_out_reset or
\* homa_message_out_destroy takes the buffer off the chain.
C37_BufferOwnership ==
    /\ [](\A r \in Rpcs :
            /\ Len(refs[r]) = Len(msgout[r].packets)
            /\ \A i \in 1..Len(refs[r]) : HeldByMessage(refs[r][i]))
    /\ [][\A r \in Rpcs :
            IF Releases(call', r)
            THEN /\ Len(call'.released) = Len(refs[r])
                 /\ \A i \in 1..Len(refs[r]) :
                        /\ call'.released[i].users = refs[r][i].users - 1
                        /\ call'.released[i].users = refs[r][i].queued
            ELSE (refs[r] # <<>>) => Len(refs'[r]) = Len(refs[r])]_vars

\* ip_queue_xmit has just reported an error for a buffer and freed it, and
\* the buffer is still linked.
C37_Witness ==
    /\ xmit_fail
    /\ \E k \in 1..Len(sent) :
           /\ sent[k].index <= Len(refs[sent[k].rpc])
           /\ refs[sent[k].rpc][sent[k].index] = NewSkb


(***************************************************************************)
(* homa_gro_receive and its caller.  A held packet is a record of its own  *)
(* number, the gro_count of its header and the packets on its frag_list;   *)
(* same[i] is NAPI_GRO_CB(pp)->same_flow of the i-th held packet, which    *)
(* the caller has set for the new packet.                                  *)
(***************************************************************************)
InitGro ==
    /\ Quiet
    /\ slots = {}
    /\ is_client = [r \in Rpcs |-> TRUE]
    /\ rtt_bytes \in RttChoices
    /\ dont_throttle = FALSE
    /\ alloc_fail = FALSE
    /\ xmit_fail = FALSE
    /\ max_gro_skbs \in 1..MaxGro
    /\ max_nic_queue_cycles = 0
    /\ dev_gso_max_size = gso_max_size
    /\ max_sched_prio = 0

\* "h_new->gro_count = 1" in a packet that nothing has been merged into.
HeldAlone(skb) == [skb |-> skb, gro_count |-> 1, frags |-> <<>>]

\* The first held packet of the list with same_flow set, or NULL.
FirstSameFlow(same) ==
    IF \E i \in DOMAIN same : same[i]
    THEN CHOOSE i \in DOMAIN same :
             same[i] /\ \A j \in DOMAIN same : same[j] => i <= j
    ELSE NULL

\* gro_count is a __u16.
GroCountIncr(c) == (c + 1) % 65536

\* The held packet is returned only when it exceeds the limit.
GroFull_late(c, max) == c > max

\* "if (h_held->gro_count >= homa->max_gro_skbs) return pp;"
GroFull(c, max) == c >= max

\* ret is the held packet the caller must pass up at once (NULL: none);
\* same_flow and flush are the marks left in the new packet.
homa_gro_receive(list, skb, same, header_ok, max) ==
    LET i == FirstSameFlow(same)
    IN  IF ~header_ok
        THEN [list |-> list, ret |-> NULL, same_flow |-> FALSE,
              flush |-> TRUE]
        ELSE IF i = NULL
        THEN [list |-> list, ret |-> NULL, same_flow |-> FALSE,
              flush |-> FALSE]
        ELSE LET pp == [list[i] EXCEPT !.frags = Append(@, skb),
                                       !.gro_count = GroCountIncr(@)]
             IN  [list |-> [list EXCEPT ![i] = pp],
                  ret |-> IF GroFull(pp.gro_count, max) THEN i ELSE NULL,
                  same_flow |-> TRUE, flush |-> FALSE]

\* The list without its i-th element.
Without(list, i) ==
    [k \in 1..(Len(list) - 1) |-> IF k < i THEN list[k] ELSE list[k + 1]]

\* A packet arrives: the caller has marked the held packets of its flow,
\* calls homa_gro_receive, passes up the held packet that is returned, and
\* holds the new packet if it was neither merged nor flushed.
GroReceive(same, header_ok) ==
    LET skb == gro.arrived + 1
        res == homa_gro_receive(gro.list, skb, same, header_ok,
                                max_gro_skbs)
        rest == IF res.ret = NULL THEN res.list
                ELSE Without(res.list, res.ret)
    IN  /\ gro.arrived < MaxArrivals
        /\ gro' = [list |-> IF res.same_flow \/ res.flush THEN rest
                            ELSE <<HeldAlone(skb)>> \o rest,
                   arrived |-> skb]
        /\ call' = [fn |-> "homa_gro_receive", skb |-> skb,
                    merged |-> {i \in DOMAIN same : res.list[i] # gro.list[i]},
                    passed_up |-> IF res.ret = NULL THEN <<>>
                                  ELSE <<res.list[res.ret]>>]
        /\ sent' = <<>>
        /\ UNCHANGED <<msgout, state, lock, throttled_rpcs, link_idle_time,
                       pacer_active, now, pc, iter, cur, env, sync_state,
                       throttled_links, refs, ctl>>

\* The caller passes a held packet up the stack (homa_gro_complete).
GroComplete(i) ==
    /\ i \in 1..Len(gro.list)
    /\ gro' = [gro EXCEPT !.list = Without(gro.list, i)]
    /\ call' = [fn |-> "homa_gro_complete", passed_up |-> <<gro.list[i]>>]
    /\ sent' = <<>>
    /\ UNCHANGED <<msgout, state, lock, throttled_rpcs, link_idle_time,
                   pacer_active, now, pc, iter, cur, env, sync_state,
                   throttled_links, refs, ctl>>

NextGro ==
    \/ \E same \in [1..Len(gro.list) -> BOOLEAN], header_ok \in BOOLEAN :
           GroReceive(same, header_ok)
    \/ \E i \in 1..MaxArrivals : GroComplete(i)

SpecGro == InitGro /\ [][NextGro]_vars

\* The packets of a bundle: the held packet and those merged into it.
Bundle(pp) == <<pp.skb>> \o pp.frags

\* The bundles that exist: the held packets and the one just passed up.
Bundles == gro.list \o (IF "passed_up" \in DOMAIN call THEN call.passed_up
                        ELSE <<>>)

EthInputs ==
    {[len |-> l, mtu |-> 1500, gso |-> g] :
        l \in (1425..1445) \cup (2860..2885) \cup {1, 4296, 4320, 5760},
        g \in {1500, 3000, 65536}}

InitEth ==
    /\ Quiet
    /\ slots = {}
    /\ is_client = [r \in Rpcs |-> TRUE]
    /\ rtt_bytes = ScenarioRtt
    /\ dont_throttle = FALSE
    /\ alloc_fail = FALSE
    /\ xmit_fail = FALSE
    /\ max_gro_skbs = MaxGro
    /\ max_nic_queue_cycles = 0
    /\ dev_gso_max_size = gso_max_size
    /\ max_sched_prio = 0

NextEth ==
    \/ Tick
    \/ \E in \in EthInputs : FillCall(in, 0)

SpecEth == InitEth /\ [][NextEth]_vars

\* The segments of a message of at least two packets lie at the multiples
\* of size, and none is longer than size.
SplitEvery(segs, size) ==
    \A i \in 1..Len(segs) :
        /\ segs[i].length <= size
        /\ segs[i].offset = (i - 1) * size

\* C39: with mtu = 1500 every DATA segment carries at most 1440 bytes and a
\* message longer than 1440 bytes is split into segments at offsets 0, 1440,
\* 2880, 4320, ...
C39_SegmentsOf1440 ==
    (call.fn = "homa_fill_packets" /\ call.mtu = 1500 /\ call.err = 0) =>
        /\ FillLayout(call.len, call.mtu, call.gso, rtt_bytes).max_pkt_data
               = 1440
        /\ SplitEvery(Segments(call.packets), 1440)
        /\ (call.len > 1440) => Len(Segments(call.packets)) >= 2

\* C39, amended: with mtu = 1500 every DATA segment carries at most 1432
\* bytes (max_pkt_data = 1500 - 20 - 48, the data_header being 48 bytes
\* long), and a message longer than 1432 bytes is split into segments at
\* offsets 0, 1432, 2864, 4296, ...
C39_SegmentsOf1432 ==
    (call.fn = "homa_fill_packets" /\ call.mtu = 1500 /\ call.err = 0) =>
        /\ FillLayout(call.len, call.mtu, call.gso, rtt_bytes).max_pkt_data
               = 1432
        /\ SplitEvery(Segments(call.packets), 1432)
        /\ (call.len > 1432) => Len(Segments(call.packets)) >= 2

\* A message of 5760 bytes: segments at 0, 1432, 2864, 4296 and 5728.
C39_Witness ==
    /\ call.fn = "homa_fill_packets"
    /\ call.mtu = 1500
    /\ call.len = 5760
    /\ Len(Segments(call.packets)) = 5
    /\ Segments(call.packets)[4].offset = 4296


(***************************************************************************)
(* __homa_xmit_control, line by line.  Every step records in call whether  *)
(* it read or wrote the header of the packet, and whether the function     *)
(* held its reference to the buffer at that moment.                        *)
(***************************************************************************)
\* GRANT, RESEND, RESTART, BUSY and CUTOFFS.
ControlTypes == 21..25

InitCtl ==
    /\ Quiet
    /\ slots = {}
    /\ is_client = [r \in Rpcs |-> TRUE]
    /\ rtt_bytes \in RttChoices
    /\ dont_throttle = FALSE
    /\ alloc_fail = TRUE
    /\ xmit_fail = TRUE
    /\ max_gro_skbs = MaxGro
    /\ max_nic_queue_cycles = 0
    /\ dev_gso_max_size = gso_max_size
    /\ max_sched_prio = 0

CtlFrame ==
    /\ sent' = <<>>
    /\ UNCHANGED <<msgout, state, lock, throttled_rpcs, link_idle_time,
                   pacer_active, now, pc, iter, cur, env, sync_state,
                   throttled_links, refs, gro>>

CtlStep(line, header, holds, value) ==
    [fn |-> "__homa_xmit_control", line |-> line, header |-> header,
     holds |-> holds, value |-> value]

\* "skb = alloc_skb(...); if (unlikely(!skb)) return -ENOBUFS; ...
\*  h = (struct common_header *) skb_put(skb, length);
\*  memcpy(h, contents, length);"
CtlAlloc(type, ok) ==
    /\ ctl.pc = "out"
    /\ ~ok => alloc_fail
    /\ ctl' = IF ok
              THEN [pc |-> "queue", type |-> type, users |-> 1,
                    queued |-> 0, holds |-> TRUE, result |-> 0]
              ELSE [NoCtl EXCEPT !.result = -ENOBUFS]
    /\ call' = IF ok THEN CtlStep(366, TRUE, TRUE, type)
               ELSE CtlStep(362, FALSE, FALSE, 0)
    /\ CtlFrame

\* "skb_get(skb); result = ip_queue_xmit(...);"
CtlQueue(outcome) ==
    /\ ctl.pc = "queue"
    /\ outcome \in XmitOutcomes
    /\ ctl' = [ip_queue_xmit(skb_get(ctl), outcome) EXCEPT
                  !.pc = IF outcome = "ok" THEN "free" ELSE "check",
                  !.result = IF outcome = "ok" THEN 0 ELSE -ENOBUFS]
    /\ call' = CtlStep(372, FALSE, ctl.holds, 0)
    /\ CtlFrame

\* "if (refcount_read(&skb->users) > 1) printk(...)".
CtlCheck ==
    /\ ctl.pc = "check"
    /\ ctl' = [ctl EXCEPT !.pc = "free"]
    /\ call' = CtlStep(383, FALSE, ctl.holds, ctl.users)
    /\ CtlFrame

\* "kfree_skb(skb);"
CtlFree ==
    /\ ctl.pc = "free"
    /\ ctl' = [kfree_skb(ctl) EXCEPT !.pc = "metric", !.holds = FALSE]
    /\ call' = CtlStep(388, FALSE, ctl.holds, 0)
    /\ CtlFrame

\* "INC_METRIC(packets_sent[h->type - DATA], 1); return result;": the type
\* is read from the header in the buffer; the memory of a freed buffer
\* holds anything.
CtlMetric(value) ==
    /\ ctl.pc = "metric"
    /\ IF ctl.users = 0 THEN value \in ControlTypes ELSE value = ctl.type
    /\ ctl' = [NoCtl EXCEPT !.result = ctl.result]
    /\ call' = CtlStep(389, TRUE, ctl.holds, value)
    /\ CtlFrame

\* The packet has left the host: ip_queue_xmit's reference is dropped.
CtlTxDone ==
    /\ ctl.queued > 0
    /\ ctl' = [ctl EXCEPT !.users = @ - 1, !.queued = @ - 1]
    /\ call' = NoCall
    /\ CtlFrame

NextCtl ==
    \/ Tick
    \/ \E type \in ControlTypes, ok \in BOOLEAN : CtlAlloc(type, ok)
    \/ \E outcome \in {"ok", "freed", "kept"} : CtlQueue(outcome)
    \/ CtlCheck
    \/ CtlFree
    \/ \E value \in ControlTypes : CtlMetric(value)
    \/ CtlTxDone

SpecCtl == InitCtl /\ [][NextCtl]_vars

\* C40: __homa_xmit_control reads and writes the header of the control
\* packet only while it holds its own reference to the buffer.
C40_HeaderOnlyWhileHeld ==
    (call.fn = "__homa_xmit_control" /\ call.header) => call.holds

=============================================================================
